---- MODULE Spec2Model ----
(***************************************************************************)
(* STOPme real-time pipeline: stream synchronizer, window framer, bounded  *)
(* event channel, event dispatcher and activation policy.                  *)
(*                                                                         *)
(* Time is counted in integer milliseconds (the code holds float seconds   *)
(* of time.monotonic(); max_skew_ms and stale_ms are integers divided by   *)
(* 1000.0).  A sample's payload is abstracted to the (device, kind) it     *)
(* came from, which is what the row layout is about.                       *)
(***************************************************************************)
EXTENDS Integers, Sequences, FiniteSets, TLC

\* ------------------------------------------------------------------ bounds
\* Latest value of the monotonic clock that the model explores (ms).
MaxTime == 40
\* Number of update() calls that get the synchronizer lock in one run.
MaxCalls == 7

\* The readings of the clock: one every 20 ms, so that two readings are
\* within max_skew (25 ms) of each other exactly when they are adjacent.
ClockReadings == {x \in 0..MaxTime : x % 20 = 0}

\* ---------------------------------------------------------- synchronizer
left_id == "bc_left"
right_id == "bc_right"

\* One worker per BlueCoin (sensor_manager.py) calls update() with its own
\* device id; "t_other" is a caller whose device id is not configured.
Threads == {"t_left", "t_right", "t_other"}
NoThread == "none"
DeviceOf(t) ==
    IF t = "t_left" THEN left_id ELSE IF t = "t_right" THEN right_id ELSE "bc_other"

\* Payloads of a sample: "1" stands for an element float() converts, "x"
\* for one it rejects.
V3 == <<"1", "1", "1">>
V4 == <<"1", "1", "1", "1">>
V2 == <<"1", "1">>
VX == <<"1", "x", "1">>

\* (kind, payload) pairs a caller may pass: the three kinds with a payload
\* that converts to floats, a kind the synchronizer does not know, and a
\* quaternion payload of three elements.
CallInputs(t) ==
    IF t = "t_other" THEN {<<"acc", V3>>}
    ELSE {<<"acc", V3>>, <<"gyr", V3>>, <<"quat", V4>>,
          <<"mag", V3>>, <<"quat", V3>>}

\* max_skew_ms of the sync configuration.
max_skew == 25
\* stale_ms values of the two profiles (0 disables staleness protection).
StaleChoices == {0, 30}

NoSample == [dev |-> "-", kind |-> "-"]
Sample(dev, kind) == [dev |-> dev, kind |-> kind]

NoRow == [vals |-> <<>>, ts |-> -1]

VARIABLES
    now,            \* time.monotonic(), ms
    stale,          \* IMUSynchronizer.stale, ms
    st,             \* IMUSynchronizer._state: device id -> _DevState
    pending,        \* IMUSynchronizer._pending_row
    lock,           \* holder of IMUSynchronizer._lock, or NoThread
    pc,             \* position of each listener thread inside update()
    arg,            \* arguments of the update() call each thread is in
    emits,          \* IMUSynchronizer._emits
    drops_left,     \* IMUSynchronizer._drops_left
    drops_right,    \* IMUSynchronizer._drops_right
    ncalls,         \* update() calls that entered the with block of line 92
    handed,         \* rows passed to DataBuffer.add_buffer_row, in order
    chk             \* history: whether the latest update() that got the lock
                    \* ran _try_emit_locked, and what its lines 131-147 saw

\* Rows built in a run of sequential update() calls.
MaxEmits == 2

VARIABLES
    last_call,      \* history: arguments of the latest sequential update()
                    \* call and how it ended
    since_emit,     \* history: per device and kind, whether a sample was
                    \* stored since the latest row was built
    built           \* history: the latest row built by a sequential call:
                    \* newest arrival time of each side, oldest arrival time
                    \* of its six samples, and its timestamp

feedVars == <<last_call, since_emit, built>>

\* _DevState() as constructed.
DevStateInit ==
    [acc |-> NoSample, gyr |-> NoSample, quat |-> NoSample,
     ts_acc |-> 0, ts_gyr |-> 0, ts_quat |-> 0]

Max2(a, b) == IF a >= b THEN a ELSE b
Min2(a, b) == IF a <= b THEN a ELSE b
Abs(x) == IF x >= 0 THEN x ELSE -x

\* _DevState.ready
ready(d) == d.acc # NoSample /\ d.gyr # NoSample /\ d.quat # NoSample

\* _DevState.newest_ts
newest_ts(d) == Max2(d.ts_acc, Max2(d.ts_gyr, d.ts_quat))

\* Mutant: the side is left as it is.
keep_triplet(d) == d

\* _DevState.clear_triplet
clear_triplet(d) == DevStateInit

NoArg == [dev |-> "-", kind |-> "-", values |-> <<>>, ts |-> 0]

\* The assignments of update() for one sample (lines 95-100); the state is
\* returned unchanged for an unknown kind or an unconvertible payload.
FloatOk(v) == v = "1"

\* Elements of the payload that lines 96-100 index: 3, or 4 for a quaternion.
Needed(kind) == IF kind = "quat" THEN 4 ELSE 3

\* Mutant: every element present is converted, none is required.
ConvertsPresent(kind, values) ==
    \A i \in 1..Len(values) : FloatOk(values[i])

\* The tuple of floats of lines 96-100 is built: values[0..n-1] exist and
\* float() accepts each (IndexError, TypeError and ValueError otherwise).
Converts(kind, values) ==
    /\ Len(values) >= Needed(kind)
    /\ \A i \in 1..Needed(kind) : FloatOk(values[i])

StoreAccepted(a) ==
    a.kind \in {"acc", "gyr", "quat"} /\ Converts(a.kind, a.values)

StoreSample(s, a) ==
    IF ~StoreAccepted(a) THEN s
    ELSE IF a.kind = "acc"
         THEN [s EXCEPT ![a.dev].acc = Sample(a.dev, "acc"), ![a.dev].ts_acc = a.ts]
    ELSE IF a.kind = "gyr"
         THEN [s EXCEPT ![a.dev].gyr = Sample(a.dev, "gyr"), ![a.dev].ts_gyr = a.ts]
    ELSE [s EXCEPT ![a.dev].quat = Sample(a.dev, "quat"), ![a.dev].ts_quat = a.ts]

\* Staleness protection of _try_emit_locked (lines 124-129).
StaleLeft(s, tnow, stl) ==
    stl > 0 /\ ready(s[left_id]) /\ tnow - newest_ts(s[left_id]) > stl
StaleRight(s, tnow, stl) ==
    stl > 0 /\ ready(s[right_id]) /\ tnow - newest_ts(s[right_id]) > stl

StaleEvict(s, tnow, stl) ==
    [d \in DOMAIN s |->
        IF d = left_id /\ StaleLeft(s, tnow, stl) THEN clear_triplet(s[d])
        ELSE IF d = right_id /\ StaleRight(s, tnow, stl) THEN clear_triplet(s[d])
        ELSE s[d]]

\* Mutant: the difference is taken without abs().
AlignedNoAbs(tL, tR) == tL - tR <= max_skew

\* The alignment test of line 135.
Aligned(tL, tR) == Abs(tL - tR) <= max_skew

\* Mutant: the row is built LEFT first.
BuildRowLeftFirst(L, R) ==
    [vals |-> <<L.acc, L.gyr, L.quat, R.acc, R.gyr, R.quat>>,
     ts |-> Max2(newest_ts(L), newest_ts(R))]

\* The row built at line 139: RIGHT first, then LEFT, then the timestamp.
BuildRow(L, R) ==
    [vals |-> <<R.acc, R.gyr, R.quat, L.acc, L.gyr, L.quat>>,
     ts |-> Max2(newest_ts(L), newest_ts(R))]

\* Mutant: the side that is ahead is dropped instead of the one behind.
DropNewer(s, tL, tR) ==
    IF tL + max_skew < tR
    THEN [st |-> [s EXCEPT ![right_id] = clear_triplet(s[right_id])], dl |-> 0, dr |-> 1]
    ELSE IF tR + max_skew < tL
    THEN [st |-> [s EXCEPT ![left_id] = clear_triplet(s[left_id])], dl |-> 1, dr |-> 0]
    ELSE [st |-> s, dl |-> 0, dr |-> 0]

\* Lines 146-152: the pair is not aligned, the older triplet is dropped.
\* Gives the state and the increments of _drops_left and _drops_right.
DropOlder(s, tL, tR) ==
    IF tL + max_skew < tR
    THEN [st |-> [s EXCEPT ![left_id] = clear_triplet(s[left_id])], dl |-> 1, dr |-> 0]
    ELSE IF tR + max_skew < tL
    THEN [st |-> [s EXCEPT ![right_id] = clear_triplet(s[right_id])], dl |-> 0, dr |-> 1]
    ELSE [st |-> s, dl |-> 0, dr |-> 0]

\* What lines 131-147 of _try_emit_locked looked at: whether both sides were
\* ready, their newest timestamps, and, for a ready pair that is not
\* aligned, the two sides themselves.
Seen(L, R) ==
    IF ~(ready(L) /\ ready(R))
    THEN [both |-> FALSE, tL |-> 0, tR |-> 0, L |-> DevStateInit, R |-> DevStateInit]
    ELSE IF Abs(newest_ts(L) - newest_ts(R)) <= max_skew
    THEN [both |-> TRUE, tL |-> newest_ts(L), tR |-> newest_ts(R),
          L |-> DevStateInit, R |-> DevStateInit]
    ELSE [both |-> TRUE, tL |-> newest_ts(L), tR |-> newest_ts(R), L |-> L, R |-> R]

\* _try_emit_locked: from the state s (sample already stored), the pending
\* row p and the counters, the state, pending row and counters it leaves.
TryEmitLocked(s, p, tnow, stl, em, dl, dr) ==
    LET s1 == StaleEvict(s, tnow, stl)
        dl1 == IF StaleLeft(s, tnow, stl) THEN dl + 1 ELSE dl
        dr1 == IF StaleRight(s, tnow, stl) THEN dr + 1 ELSE dr
        L == s1[left_id]
        R == s1[right_id]
        tL == newest_ts(L)
        tR == newest_ts(R)
    IN  IF ~(ready(L) /\ ready(R))
        THEN [st |-> s1, pending |-> p, emits |-> em, dl |-> dl1, dr |-> dr1,
              seen |-> Seen(L, R)]
        ELSE IF Aligned(tL, tR)
        THEN [st |-> [s1 EXCEPT ![left_id] = clear_triplet(L),
                                ![right_id] = clear_triplet(R)],
              pending |-> BuildRow(L, R),
              emits |-> em + 1, dl |-> dl1, dr |-> dr1, seen |-> Seen(L, R)]
        ELSE LET d == DropOlder(s1, tL, tR)
             IN  [st |-> d.st, pending |-> NoRow, emits |-> em,
                  dl |-> dl1 + d.dl, dr |-> dr1 + d.dr, seen |-> Seen(L, R)]

\* ---------------------------------------------------------- window framer
\* Rows fed to a DataBuffer in one run.
MaxRows == 7
\* Largest window_size explored.
MaxWindow == 3

\* calibration_windows values explored (the code's default is 3).
WarmupChoices == {0, 2, 3}

VARIABLES
    window_size,          \* DataBuffer.window_size
    hop_size,             \* DataBuffer.hop_size
    calibration_windows,  \* the configured number of warm-up windows
    warmup_left,          \* DataBuffer._warmup_left
    did_calibrate_once,   \* DataBuffer._did_calibrate_once
    gate_actuation,       \* DataBuffer._gate_actuation
    rows,                 \* DataBuffer._rows
    ts_list,              \* DataBuffer._ts
    features_sink,        \* whether DataBuffer._features_sink is set
    windows_emitted,      \* DataBuffer._windows_emitted
    winLog,               \* windows passed to _on_window_ready, in order
    extLog,               \* calls of process_data_wrists_quat, in order
    sinkLog,              \* calls of the features sink, in order
    addResult,            \* how the last add_buffer_row call ended
    nfed                  \* rows fed to the DataBuffer by a direct caller

framerVars == <<window_size, hop_size, calibration_windows, warmup_left,
                did_calibrate_once, gate_actuation, rows, ts_list,
                features_sink, windows_emitted, winLog, extLog, sinkLog,
                addResult, nfed>>

\* DataBuffer.is_calibrated
is_calibrated(calibrated) == calibrated

\* DataBuffer.should_gate_actuation
should_gate_actuation(gate, calibrated) == gate /\ ~is_calibrated(calibrated)

\* rows[k:] of Python, for k >= 0.
DropFirst(q, k) == IF k >= Len(q) THEN <<>> ELSE SubSeq(q, k + 1, Len(q))

\* The window sliced at lines 94-96 from the buffer q of length >= w.
WindowShort(q, w) == SubSeq(q, Len(q) - w + 2, Len(q))

WindowOf(q, w) == SubSeq(q, Len(q) - w + 1, Len(q))

\* The buffer kept at lines 99-106.
SlideClear(q, hop) == <<>>

Slide(q, hop) == IF hop <= 0 THEN <<>> ELSE DropFirst(q, hop)

\* The warm-up test of _on_window_ready (line 125): the window is skipped.
SkipWarmupShort(left) == left > 1

SkipWarmup(left) == left > 0

\* Lines 181-197: the sink is called when the extractor returned and a sink
\* is registered.
EmitsAlways(ok, sink) == sink

Emits(ok, sink) == ok /\ sink

\* DataBuffer.__init__ for one configuration.
FramerInit(w, h, cw, gate, sink) ==
    /\ window_size = w
    /\ hop_size = h
    /\ calibration_windows = cw
    /\ warmup_left = cw
    /\ did_calibrate_once = FALSE
    /\ gate_actuation = gate
    /\ rows = <<>>
    /\ ts_list = <<>>
    /\ features_sink = sink
    /\ windows_emitted = 0
    /\ winLog = <<>>
    /\ extLog = <<>>
    /\ sinkLog = <<>>
    /\ addResult = "none"

\* DataBuffer._on_window_ready for the window (wrows, wts).  The extractor
\* either returns features or raises; the sink is called with
\* (features, window_end_ts, gated).
OnWindowReady(wrows, wts) ==
    /\ windows_emitted' = windows_emitted + 1
    /\ winLog' = Append(winLog, [rows |-> wrows, ts |-> wts])
    /\ IF SkipWarmup(warmup_left)
       THEN /\ warmup_left' = warmup_left - 1
            /\ UNCHANGED <<did_calibrate_once, extLog, sinkLog>>
       ELSE /\ UNCHANGED warmup_left
            /\ did_calibrate_once' = TRUE
            /\ \E ok \in BOOLEAN :
                 /\ extLog' = Append(extLog,
                        [n |-> windows_emitted + 1,
                         doCalibrate |-> ~did_calibrate_once, ok |-> ok])
                 /\ IF Emits(ok, features_sink)
                    THEN sinkLog' = Append(sinkLog,
                            [n |-> windows_emitted + 1,
                             ts |-> wts[Len(wts)],
                             gated |-> should_gate_actuation(gate_actuation,
                                                             did_calibrate_once'),
                             doCalibrate |-> ~did_calibrate_once])
                    ELSE UNCHANGED sinkLog

\* DataBuffer.add_buffer_row for the row r.  window_rows is assigned only
\* when a window is cut (line 95): the test of line 108 raises
\* UnboundLocalError when it was not.
AddBufferRow(r) ==
    LET q == Append(rows, r.vals)
        qt == Append(ts_list, r.ts)
    IN  IF Len(q) >= window_size
        THEN /\ rows' = Slide(q, hop_size)
             /\ ts_list' = Slide(qt, hop_size)
             /\ OnWindowReady(WindowOf(q, window_size), WindowOf(qt, window_size))
             /\ addResult' = "returned"
        ELSE /\ rows' = q
             /\ ts_list' = qt
             /\ addResult' = "UnboundLocalError"
             /\ UNCHANGED <<warmup_left, did_calibrate_once, windows_emitted,
                            winLog, extLog, sinkLog>>

\* ---------------------------------------------------- bounded event channel
\* Largest event_queue_size explored (the code's default is 5).
MaxCapacity == 2
\* Events the classifier is asked to publish in one run.
MaxEvents == 3

NoEvent == [id |-> 0, tag |-> "-", gated |-> FALSE]

VARIABLES
    capacity,       \* MAX_Q_SIZE, the maxsize of _event_queue
    queue,          \* _event_queue, oldest first
    dropped_count,  \* _dropped_counts["imu"]
    ppc,            \* position of the publishing thread in enqueue_drop_oldest
    pitem,          \* the event recognize() is publishing
    pdropped,       \* dropped_item of enqueue_drop_oldest
    npub,           \* events built by recognize() so far
    delivered,      \* events the Dispatcher took with q.get, in order
    inserted,       \* ids of the events a put_nowait has put in the queue
    published,      \* ids of the events whose enqueue_drop_oldest returned
    auditDropped,   \* events recorded with the DROPPED marker, in order
    lastRet,        \* what the last enqueue_drop_oldest returned
    evicted,        \* ids of the events get_nowait took out in line 39
    lastRec         \* the last recognize() call: its inputs and its return

chanVars == <<capacity, queue, dropped_count, ppc, pitem, pdropped, npub,
              delivered, inserted, published, auditDropped, lastRet,
              evicted, lastRec>>

\* FEAT of predict_models_wrapper_quat.py: the length of a feature vector.
FEAT == 18

\* Lengths of the feature vectors given to recognize().
FeatureSizes == {17, 18, 19}

\* _as_f32_150, line 44: the vector is passed to the classifier library.
SizeOkAtLeast(n) == n >= FEAT

SizeOk(n) == n = FEAT

\* Labels the classifier library returns in the runs explored.
ClassifierLabels == {2, 3}

\* str(label) of line 57.
TagString(label) ==
    CASE label = 0 -> "0"
      [] label = 1 -> "1"
      [] label = 2 -> "2"
      [] label = 3 -> "3"
      [] OTHER -> "7"

\* How actuator_manager.trigger and log_event can end.
CallEnds == {"ok", "raise"}

\* enqueue_drop_oldest, line 35: the `except Full` clause.
CatchesNoFull(end) == FALSE

CatchesFull(end) == end = "Full"

\* Queue.put_nowait: whether it raises Full.
PutNeverFull(q, cap) == FALSE

PutRaisesFull(q, cap) == cap > 0 /\ Len(q) >= cap

\* Queue.get_nowait on a non-empty queue: what stays queued.
WithoutNewest(q) == SubSeq(q, 1, Len(q) - 1)

WithoutOldest(q) == Tail(q)

\* What enqueue_drop_oldest returned: pair tells whether it was a
\* (dropped, dropped_item) tuple; kind is the kind it was called with.
NoRet == [dropped |-> FALSE, item |-> NoEvent, pair |-> TRUE, error |-> FALSE,
          kind |-> "imu"]

NoRec == [size |-> 0, fails |-> FALSE, label |-> 0, gated |-> FALSE,
          ret |-> NoEvent]

ChanInit(cap) ==
    /\ capacity = cap
    /\ queue = <<>>
    /\ dropped_count = 0
    /\ ppc = "idle"
    /\ pitem = NoEvent
    /\ pdropped = NoEvent
    /\ npub = 0
    /\ delivered = <<>>
    /\ inserted = {}
    /\ published = {}
    /\ auditDropped = <<>>
    /\ lastRet = NoRet
    /\ evicted = {}
    /\ lastRec = NoRec

\* -------------------------------------------- activation policy, dispatcher
TAG_NO_CLASS == 0
TAG_NON_DANGEROUS == 1
TAG_DANGEROUS == 2
TAG_NON_STEREOTIPY == 3
\* Seconds an unchanged active tag waits before it is actuated again.
ACTUATION_COOLDOWN == 5

\* Last reading of the monotonic clock explored, in seconds.
MaxClock == 5
\* The readings at which events arrive: a second, and the cooldown, apart.
DispClock == {x \in 0..MaxClock : x % ACTUATION_COOLDOWN <= 1}

\* None, for a tag, a time and an actuator.
NoneTag == -1
NoTime == -1
NoActuator == ""

\* The strings str(predict_pericolosa_wrists_quat(feats)) the classifier
\* publishes: the four labelled classes and one byte value without a label.
RawTags == {"0", "1", "2", "3", "7"}

\* int(raw_tag), None when it raises.
ParseTag(raw) ==
    CASE raw = "0" -> 0
      [] raw = "1" -> 1
      [] raw = "2" -> 2
      [] raw = "3" -> 3
      [] raw = "7" -> 7
      [] OTHER -> NoneTag

\* Actuator ids as initialize_actuators registers them.
ActuatorConfigs ==
    { <<>>,
      <<"led_a">>,
      <<"speaker_c", "meta_b">> }

\* policy.attempts of config.yaml.
AttemptChoices == {0, 2}

KindOf(actuator_id) ==
    CASE actuator_id \in {"led_a"} -> "led_"
      [] actuator_id \in {"speaker_c"} -> "speaker_"
      [] actuator_id \in {"meta_b"} -> "meta_"
      [] OTHER -> "other"

led_variants_mild ==
    << [color |-> <<255, 255, 255, 0>>, intensity |-> 50, speed |-> 100],
       [color |-> <<180, 220, 255, 0>>, intensity |-> 60, speed |-> 100],
       [color |-> <<200, 255, 200, 0>>, intensity |-> 70, speed |-> 100] >>

led_variants_strong ==
    << [color |-> <<255, 0, 0, 0>>, intensity |-> 100, speed |-> 100],
       [color |-> <<255, 128, 0, 0>>, intensity |-> 100, speed |-> 100],
       [color |-> <<255, 0, 255, 0>>, intensity |-> 100, speed |-> 100] >>

meta_variants_mild ==
    << [duty |-> 40, duration |-> 700],
       [duty |-> 55, duration |-> 800],
       [duty |-> 70, duration |-> 900] >>

meta_variants_strong ==
    << [duty |-> 100, duration |-> 900],
       [duty |-> 100, duration |-> 1100],
       [duty |-> 100, duration |-> 1300] >>

\* The keys of AudioLibrary._files.
AudioKeys ==
    { "STATIONARY", "WALKING", "WALKING_FAST", "RUNNING", "TEMPERATURE_DOWN",
      "TEMPERATURE_UP", "SPEAKER_CONNECT", "SPEAKER_DISCONNECT",
      "TEMPERATURE_LOW", "TEMPERATURE_MEDIUM", "TEMPERATURE_HIGH",
      "TEMPERATURE_CRITICAL", "MISSING_FILE" }

\* getattr(AudioLibrary, key), with the AttributeError fallback of _params_for.
\* A known key yields that key's file; the files themselves are not modelled.
AudioFile(key) == IF key \in AudioKeys THEN key ELSE "MISSING_FILE"

spk_key_mild == "NON_DANGEROUS_ENG"
spk_key_strong == "DANGEROUS_ENG"

NoResult == [actuator_id |-> NoActuator, kind |-> "none", variant |-> 0,
             mild |-> FALSE]

\* _params_for: the command for an actuator; the parameters are named by the
\* table (kind, mild) and the index of the variant in it.
ParamsOf(result, mild) ==
    CASE result.kind = "led_" ->
            (IF mild THEN led_variants_mild ELSE led_variants_strong)[result.variant]
      [] result.kind = "meta_" ->
            (IF mild THEN meta_variants_mild ELSE meta_variants_strong)[result.variant]
      [] result.kind = "speaker_" ->
            [file |-> AudioFile(IF mild THEN spk_key_mild ELSE spk_key_strong)]
      [] OTHER -> <<>>

\* variants[variation_index % len(variants)] of lines 141 and 153, as the
\* 1-based position in a table of n variants.
VariantCapped(variation_index, n) ==
    IF variation_index >= n THEN n ELSE variation_index + 1

VariantAt(variation_index, n) == (variation_index % n) + 1

params_for(actuator_id, mild, variation_index) ==
    IF actuator_id = NoActuator THEN NoResult
    ELSE CASE KindOf(actuator_id) = "led_" ->
                [actuator_id |-> actuator_id, kind |-> "led_",
                 variant |-> VariantAt(variation_index,
                     Len(IF mild THEN led_variants_mild ELSE led_variants_strong)),
                 mild |-> mild]
           [] KindOf(actuator_id) = "speaker_" ->
                [actuator_id |-> actuator_id, kind |-> "speaker_", variant |-> 0,
                 mild |-> mild]
           [] KindOf(actuator_id) = "meta_" ->
                [actuator_id |-> actuator_id, kind |-> "meta_",
                 variant |-> VariantAt(variation_index,
                     Len(IF mild THEN meta_variants_mild ELSE meta_variants_strong)),
                 mild |-> mild]
           [] OTHER -> NoResult

RangeOf(q) == {q[i] : i \in 1..Len(q)}

\* _pick_random: the values rng.choice can return (NoActuator for None).
pick_random_any(ids, exclude) ==
    IF ids = <<>> THEN {NoActuator} ELSE RangeOf(ids)

pick_random(ids, exclude) ==
    LET candidates ==
            IF exclude # NoActuator /\ Len(ids) > 1
            THEN SelectSeq(ids, LAMBDA a : a # exclude)
            ELSE ids
    IN  IF candidates = <<>> THEN {NoActuator} ELSE RangeOf(candidates)

PolicyInit(ids, attempts) ==
    [ actuator_ids |-> ids,
      retries_per_actuator |-> IF attempts > 1 THEN attempts ELSE 1,
      current_tag |-> NoneTag,
      current_actuator |-> NoActuator,
      attempts_on_current |-> 0,
      variation_idx |-> 0,
      last_success_actuator |->
          [t \in {TAG_NON_DANGEROUS, TAG_DANGEROUS} |-> NoActuator] ]

remember_nothing(ps, tag, actuator_id) == ps

remember_success(ps, tag, actuator_id) ==
    IF tag \in {TAG_NON_DANGEROUS, TAG_DANGEROUS}
    THEN [ps EXCEPT !.last_success_actuator[tag] = actuator_id]
    ELSE ps

reset_state_keep_cursor(ps) ==
    [ps EXCEPT !.current_tag = NoneTag, !.current_actuator = NoActuator]

reset_state(ps) ==
    [ps EXCEPT !.current_tag = NoneTag, !.current_actuator = NoActuator,
               !.attempts_on_current = 0, !.variation_idx = 0]

SwitchKeepCounters(ps, a) == [ps EXCEPT !.current_actuator = a]

SwitchTo(ps, a) ==
    [ps EXCEPT !.current_actuator = a, !.attempts_on_current = 0,
               !.variation_idx = 0]

\* The test of line 100: the attempt limit on the current actuator is reached.
limit_passed(ps) == ps.attempts_on_current > ps.retries_per_actuator

limit_reached(ps) == ps.attempts_on_current >= ps.retries_per_actuator

RecordAttempt(ps) ==
    [ps EXCEPT !.attempts_on_current = @ + 1, !.variation_idx = @ + 1]

\* Mutant: a change of tag alone does not start an episode.
NoCurrentActuator(ps, tag) == ps.current_actuator = NoActuator

\* The test of line 88: the request starts a new episode.
NewEpisode(ps, tag) ==
    ps.current_tag # tag \/ ps.current_actuator = NoActuator

\* StereotipyActivationPolicy.handle: every [ps, result] the call can end in,
\* one for each value rng.choice can return; chosen is the actuator
\* _params_for was first called with (line 107).
handle(ps, raw) ==
    LET tag == ParseTag(raw)
        ids == ps.actuator_ids
        mild == (tag = TAG_NON_DANGEROUS)
        chosen ==
            IF NewEpisode(ps, tag)
            THEN LET preferred ==
                        IF tag \in {TAG_NON_DANGEROUS, TAG_DANGEROUS}
                        THEN ps.last_success_actuator[tag]
                        ELSE NoActuator
                 IN  { SwitchTo([ps EXCEPT !.current_tag = tag], a) :
                          a \in IF preferred \in RangeOf(ids)
                                THEN {preferred}
                                ELSE pick_random(ids, NoActuator) }
            ELSE {ps}
        switched ==
            UNION { IF limit_reached(p)
                    THEN { SwitchTo(p, a) : a \in pick_random(ids, p.current_actuator) }
                    ELSE {p} : p \in chosen }
        Built(p) ==
            LET result == params_for(p.current_actuator, mild, p.variation_idx)
            IN  IF result # NoResult
                THEN { [ps |-> RecordAttempt(p), result |-> result,
                        chosen |-> p.current_actuator] }
                ELSE { LET q == SwitchTo(p, a)
                           again == params_for(a, mild, q.variation_idx)
                       IN  IF again # NoResult
                           THEN [ps |-> RecordAttempt(q), result |-> again,
                                 chosen |-> p.current_actuator]
                           ELSE [ps |-> q, result |-> NoResult,
                                 chosen |-> p.current_actuator] :
                         a \in pick_random(ids, p.current_actuator) }
    IN  IF ids = <<>>
        THEN { [ps |-> ps, result |-> NoResult, chosen |-> NoActuator] }
        ELSE IF tag \in {TAG_NO_CLASS, TAG_NON_STEREOTIPY, NoneTag}
        THEN { [ps |-> reset_state(
                          IF /\ ps.current_tag \in {TAG_NON_DANGEROUS, TAG_DANGEROUS}
                             /\ ps.current_actuator # NoActuator
                          THEN remember_success(ps, ps.current_tag, ps.current_actuator)
                          ELSE ps),
                result |-> NoResult, chosen |-> NoActuator] }
        ELSE UNION { Built(p) : p \in switched }

VARIABLES
    dnow,                  \* time.monotonic(), in seconds
    last_tag,              \* EventDispatcher._last_tag
    last_actuation_time,   \* EventDispatcher._last_actuation_time
    policy,                \* the StereotipyActivationPolicy object
    proc,                  \* what the Dispatcher did with the last event
    run_act,               \* when a trigger last returned since the last
                           \* event whose tag differed from _last_tag
    thread_alive           \* whether the loop of _process_events is running

dispVars == <<dnow, last_tag, last_actuation_time, policy, proc, run_act,
              thread_alive>>

VARIABLES
    assigned,      \* actuators handle() returned to a direct caller in the
                   \* current run of requests with one active tag
    last_result,   \* what the last direct call of handle() returned
    last_req,      \* the stereotipy_tag of the last direct call of handle()
    last_chosen,   \* the actuator the last direct call first built for
    tag_before     \* _current_tag when the last direct call began

reqVars == <<assigned, last_result, last_req, last_chosen, tag_before>>

ReqInit ==
    /\ assigned = <<>>
    /\ last_result = NoResult
    /\ last_req = "-"
    /\ last_chosen = NoActuator
    /\ tag_before = NoneTag

\* ------------------------------------------------- worker threads and stop
\* The device workers that share device_reconnection_lock: the two
\* BlueCoinThreads and the SpeakerThread.
speaker_id == "speaker_c"
Sensors == {left_id, right_id}
Workers == Sensors \cup {speaker_id}

\* The order in which main() stops them: sensor_manager.stop_all, then
\* actuator_manager.stop_all.
StopOrder == <<left_id, right_id, speaker_id>>

VARIABLES
    stop_event,          \* EventDispatcher._stop_event is set
    wpc,                 \* position of the Dispatcher thread in its loop
    wevent,              \* the event q.get returned to it
    mpc,                 \* position of main() in its shutdown sequence
    mnext,               \* index in StopOrder of the worker main() stops next
    handled_after_stop,  \* events whose handling ended after stop_event was set
    polls_after_stop,    \* q.get timeouts after stop_event was set
    tstop,               \* stop_event of each device worker
    tpc,                 \* position of each device worker
    link,                \* each device: connected, reachable or unreachable
    rlock                \* the holder of device_reconnection_lock

shutVars == <<stop_event, wpc, wevent, mpc, mnext, handled_after_stop,
              polls_after_stop, tstop, tpc, link, rlock>>

\* The threads as started by main(), before any shutdown.
ShutIdle ==
    /\ stop_event = FALSE
    /\ wpc = "test"
    /\ wevent = NoEvent
    /\ mpc = "running"
    /\ mnext = 1
    /\ handled_after_stop = 0
    /\ polls_after_stop = 0
    /\ tstop = [t \in Workers |-> FALSE]
    /\ tpc = [t \in Workers |-> IF t \in Sensors THEN "connect" ELSE "loop"]
    /\ link = [t \in Workers |-> "reachable"]
    /\ rlock = NoThread

NoProc ==
    [ raw |-> "-", gated |-> FALSE, branch |-> "none", before |-> NoTime,
      policy_calls |-> 0, trigger_calls |-> 0, trigger_ok |-> FALSE,
      audit |-> "none" ]

\* The cooldown test of the unchanged-tag branch.
should_retry_strict(last, now_time) ==
    last = NoTime \/ now_time - last > ACTUATION_COOLDOWN

should_retry(last, now_time) ==
    last = NoTime \/ now_time - last >= ACTUATION_COOLDOWN

DispInit(ids, attempts) ==
    /\ dnow = 0
    /\ last_tag = NoneTag
    /\ last_actuation_time = NoTime
    /\ policy = PolicyInit(ids, attempts)
    /\ proc = NoProc
    /\ run_act = NoTime
    /\ thread_alive = TRUE

NoCall == [dev |-> "-", kind |-> "-", values |-> <<>>, end |-> "none"]

NoBuilt == [tL |-> 0, tR |-> 0, oldest |-> 0, ts |-> -1]

\* No sequential call made yet.
FeedIdle ==
    /\ built = NoBuilt
    /\ last_call = NoCall
    /\ since_emit = [d \in {left_id, right_id} |->
                       [k \in {"acc", "gyr", "quat"} |-> FALSE]]

NoCheck == [ran |-> FALSE, seen |-> Seen(DevStateInit, DevStateInit)]

SyncInit ==
    /\ now = 0
    /\ stale \in StaleChoices
    /\ st = [d \in {left_id, right_id} |-> DevStateInit]
    /\ pending = NoRow
    /\ lock = NoThread
    /\ pc = [t \in Threads |-> "idle"]
    /\ arg = [t \in Threads |-> NoArg]
    /\ emits = 0
    /\ drops_left = 0
    /\ drops_right = 0
    /\ ncalls = 0
    /\ handed = <<>>
    /\ chk = NoCheck
    /\ FeedIdle
    /\ nfed = 0
    /\ FramerInit(2, 1, 0, TRUE, TRUE)
    /\ ChanInit(MaxCapacity)
    /\ DispInit(<<>>, 0)
    /\ ReqInit
    /\ ShutIdle

\* The monotonic clock advances to its next reading.
Tick ==
    /\ now + 20 \in ClockReadings
    /\ now' = now + 20
    /\ UNCHANGED <<stale, st, pending, lock, pc, arg, emits, drops_left,
                   drops_right, ncalls, handed, chk>>
    /\ UNCHANGED feedVars
    /\ UNCHANGED framerVars
    /\ UNCHANGED chanVars
    /\ UNCHANGED dispVars
    /\ UNCHANGED reqVars
    /\ UNCHANGED shutVars

\* Lines 93-109 of update(), run by thread t holding the lock, for the call
\* arguments a.  An unknown kind or a bad payload returns, and a falsy row
\* falls off the end of the with block: both release the lock.  A row keeps
\* the thread inside the with block, at line 112, with the lock held.
UpdateLocked(t, a) ==
    IF ~StoreAccepted(a)
    THEN /\ pc' = [pc EXCEPT ![t] = "idle"]
         /\ arg' = [arg EXCEPT ![t] = NoArg]
         /\ chk' = NoCheck
         /\ UNCHANGED <<st, pending, lock, emits, drops_left, drops_right>>
    ELSE LET r == TryEmitLocked(StoreSample(st, a), pending, now, stale,
                                emits, drops_left, drops_right)
         IN  /\ st' = r.st
             /\ pending' = r.pending
             /\ emits' = r.emits
             /\ drops_left' = r.dl
             /\ drops_right' = r.dr
             /\ chk' = [ran |-> TRUE, seen |-> r.seen]
             /\ arg' = [arg EXCEPT ![t] = NoArg]
             /\ IF r.pending # NoRow
                THEN /\ lock' = t
                     /\ pc' = [pc EXCEPT ![t] = "add_row"]
                ELSE /\ lock' = NoThread
                     /\ pc' = [pc EXCEPT ![t] = "idle"]

\* Thread t runs update() up to the point where it returns, hands a row on,
\* or has to wait for self._lock (threading.Lock: not reentrant, granted only
\* when free).
\*   "idle": a listener calls update(device_id, kind, values, ts); ts is the
\*       time.monotonic() it read at arrival (feature_listeners.py): the
\*       present reading or the one before.  An unknown device id returns at line
\*       90.  If the lock is taken the thread waits at line 92.
\*   "wait_outer": the thread waiting at line 92 is granted the lock.
\*   "wait_inner": the thread waiting at line 114 is granted the lock; the
\*       finally clause clears _pending_row and both with blocks are left.
Update(t) ==
    /\ pc[t] \in {"idle", "wait_outer", "wait_inner"}
    /\ CASE pc[t] = "idle" ->
              \E c \in CallInputs(t), ts \in {x \in ClockReadings : now - 20 <= x /\ x <= now} :
                 LET a == [dev |-> DeviceOf(t), kind |-> c[1], values |-> c[2],
                           ts |-> ts]
                 IN  IF a.dev \notin DOMAIN st
                     THEN UNCHANGED <<st, pending, lock, pc, arg, emits,
                                      drops_left, drops_right, ncalls, chk>>
                     ELSE IF lock # NoThread
                     THEN /\ pc' = [pc EXCEPT ![t] = "wait_outer"]
                          /\ arg' = [arg EXCEPT ![t] = a]
                          /\ UNCHANGED <<st, pending, lock, emits, drops_left,
                                         drops_right, ncalls, chk>>
                     ELSE /\ ncalls < MaxCalls
                          /\ ncalls' = ncalls + 1
                          /\ UpdateLocked(t, a)
         [] pc[t] = "wait_outer" ->
              /\ lock = NoThread
              /\ ncalls < MaxCalls
              /\ ncalls' = ncalls + 1
              /\ UpdateLocked(t, arg[t])
         [] pc[t] = "wait_inner" ->
              /\ lock = NoThread
              /\ pending' = NoRow
              /\ lock' = NoThread
              /\ pc' = [pc EXCEPT ![t] = "idle"]
              /\ UNCHANGED <<st, arg, emits, drops_left, drops_right, ncalls, chk>>
    /\ UNCHANGED <<now, stale, handed>>
    /\ UNCHANGED feedVars
    /\ UNCHANGED framerVars
    /\ UNCHANGED chanVars
    /\ UNCHANGED dispVars
    /\ UNCHANGED reqVars
    /\ UNCHANGED shutVars

\* Line 112: the row is handed to DataBuffer.add_buffer_row; whether that
\* returns or raises, the finally clause of line 113 runs next.
HandRow(t) ==
    /\ pc[t] = "add_row"
    /\ handed' = Append(handed, pending)
    /\ AddBufferRow(pending)
    /\ pc' = [pc EXCEPT ![t] = "wait_inner"]
    /\ UNCHANGED <<now, stale, st, pending, lock, arg, emits, drops_left,
                   drops_right, ncalls, chk>>
    /\ UNCHANGED <<window_size, hop_size, calibration_windows, gate_actuation,
                   features_sink, nfed>>
    /\ UNCHANGED feedVars
    /\ UNCHANGED chanVars
    /\ UNCHANGED dispVars
    /\ UNCHANGED reqVars
    /\ UNCHANGED shutVars

SyncNext ==
    \/ Tick
    \/ \E t \in Threads : Update(t)
    \/ \E t \in Threads : HandRow(t)

syncVars == <<now, stale, st, pending, lock, pc, arg, emits, drops_left,
              drops_right, ncalls, handed, chk, feedVars>>

vars == <<syncVars, framerVars, chanVars, dispVars, reqVars, shutVars>>

SyncSpec == SyncInit /\ [][SyncNext]_vars

\* A step in which some thread ran lines 93-109 of update(), up to and
\* including _try_emit_locked.
RanUpdateBody == ncalls' # ncalls /\ chk'.ran

\* The JointRow of the spec for the pair of complete sides: right acc, gyro,
\* quat, then left acc, gyro, quat.
RightThenLeft ==
    <<Sample(right_id, "acc"), Sample(right_id, "gyr"), Sample(right_id, "quat"),
      Sample(left_id, "acc"), Sample(left_id, "gyr"), Sample(left_id, "quat")>>

\* C1: a JointRow is handed to the Framer only by an update whose alignment
\* check saw both sides ready with newest timestamps at most max_skew apart;
\* an update that saw one side not ready, or the two not aligned, hands over
\* nothing and takes no thread to the hand-over point.
C1_EmitOnlyReadyAligned ==
    [][ /\ (handed' # handed) =>
             /\ chk.ran /\ chk.seen.both
             /\ Abs(chk.seen.tL - chk.seen.tR) <= 25
             /\ Len(handed') = Len(handed) + 1
        /\ (RanUpdateBody /\ ~(chk'.seen.both
                                /\ Abs(chk'.seen.tL - chk'.seen.tR) <= 25)) =>
             /\ handed' = handed
             /\ \A t \in Threads : pc'[t] # "add_row"
      ]_vars

\* C1 witness: a row was handed over from sides 20 ms apart.
C1_Witness ==
    /\ Len(handed) = 1
    /\ chk.seen.both
    /\ Abs(chk.seen.tL - chk.seen.tR) = 20

\* C2: every call to update() returns with the lock free: no thread is ever
\* left waiting for the synchronizer lock while it holds that lock itself
\* (threading.Lock is not reentrant, so such a wait never ends).
C2_UpdateReturnsLockFree ==
    \A t \in Threads : ~(pc[t] \in {"wait_outer", "wait_inner"} /\ lock = t)

\* C8: an update that sees both sides ready and at most max_skew apart
\* builds one row, right acc/gyro/quat first and left second, stamped
\* max(tL, tR), and leaves both DeviceStates empty; that row, and no other,
\* is what the update hands to add_buffer_row, which buffers it in that order.
C8_AlignedEmit ==
    [][ /\ (RanUpdateBody /\ chk'.seen.both
                          /\ Abs(chk'.seen.tL - chk'.seen.tR) <= 25) =>
             /\ pending' = [vals |-> RightThenLeft,
                            ts |-> IF chk'.seen.tL >= chk'.seen.tR
                                   THEN chk'.seen.tL ELSE chk'.seen.tR]
             /\ st' = [d \in {left_id, right_id} |-> DevStateInit]
             /\ emits' = emits + 1
             /\ \E t \in Threads : pc'[t] = "add_row"
        /\ (handed' # handed) =>
             /\ handed' = Append(handed, pending)
             /\ pending.vals = RightThenLeft
             /\ pending.ts = IF chk.seen.tL >= chk.seen.tR
                             THEN chk.seen.tL ELSE chk.seen.tR
             /\ Len(handed') = emits'
             /\ rows' = Append(rows, RightThenLeft)
             /\ ts_list' = Append(ts_list, pending.ts)
             /\ \A t \in Threads : pc'[t] # "add_row"
      ]_vars

\* C8 witness: left newest at 0 ms, right newest at 20 ms, and the row
\* stamped 20 ms has been handed over.
C8_Witness ==
    /\ chk.seen.both /\ chk.seen.tL = 0 /\ chk.seen.tR = 20
    /\ handed = <<[vals |-> RightThenLeft, ts |-> 20]>>
    /\ st = [d \in {left_id, right_id} |-> DevStateInit]

\* C9: an update that sees both sides ready but more than max_skew apart
\* emits nothing, clears the side with the older newest timestamp and leaves
\* the newer side exactly as the check saw it.
C9_UnalignedDropsOlder ==
    [][ (RanUpdateBody /\ chk'.seen.both
                       /\ Abs(chk'.seen.tL - chk'.seen.tR) > 25) =>
           /\ pending' = NoRow
           /\ handed' = handed
           /\ emits' = emits
           /\ \A t \in Threads : pc'[t] # "add_row"
           /\ (chk'.seen.tL < chk'.seen.tR) =>
                 /\ st'[left_id] = DevStateInit
                 /\ st'[right_id] = chk'.seen.R
                 /\ ready(st'[right_id])
           /\ (chk'.seen.tR < chk'.seen.tL) =>
                 /\ st'[right_id] = DevStateInit
                 /\ st'[left_id] = chk'.seen.L
                 /\ ready(st'[left_id])
      ]_vars

\* C9 witness: the check saw left at 0 ms and right at 40 ms; left is now
\* empty and right still holds its triplet.
C9_Witness ==
    /\ chk.ran /\ chk.seen.both
    /\ chk.seen.tL = 0 /\ chk.seen.tR = 40
    /\ st[left_id] = DevStateInit
    /\ st[right_id] = chk.seen.R
    /\ ready(st[right_id])
    /\ handed = <<>>

\* C10: add_buffer_row runs only after the synchronizer lock was released:
\* no thread is at the hand-over point while the lock is held.
C10_HandOverOutsideLock ==
    \A t \in Threads : pc[t] = "add_row" => lock = NoThread

\* ------------------------------------------- one listener, call after call
\* The (device id, kind, payload) of the sequential calls: every kind of
\* sample of the two configured devices.
ValidCalls ==
    {<<d, k[1], k[2]>> : d \in {left_id, right_id},
                         k \in {<<"acc", V3>>, <<"gyr", V3>>, <<"quat", V4>>}}

\* Calls with a device id that is not configured, an unknown kind, a
\* payload too short and a payload that is not numeric.
MalformedCalls ==
    {<<"bc_other", "acc", V3>>, <<left_id, "mag", V3>>,
     <<right_id, "quat", V3>>, <<right_id, "acc", V2>>,
     <<left_id, "gyr", VX>>}

\* The earliest of the three arrival times of a complete side.
oldest_ts(d) == Min2(d.ts_acc, Min2(d.ts_gyr, d.ts_quat))

NoneSince == [d \in {left_id, right_id} |-> [k \in {"acc", "gyr", "quat"} |-> FALSE]]

\* update(), lines 89-107, called by one listener with the arrival time it
\* has just read: the device id test, the store of the sample and
\* _try_emit_locked.  What update() does with the row once it is built
\* (lines 108-115) is the hand-over modelled by HandRow.
Feed(calls) ==
    /\ \E c \in calls :
         LET a == [dev |-> c[1], kind |-> c[2], values |-> c[3], ts |-> now]
         IN  IF a.dev \notin DOMAIN st \/ ~StoreAccepted(a)
             THEN /\ last_call' = [dev |-> a.dev, kind |-> a.kind,
                                   values |-> a.values, end |-> "returned"]
                  /\ UNCHANGED <<st, pending, emits, drops_left, drops_right,
                                 since_emit, built>>
             ELSE LET s == StoreSample(st, a)
                      r == TryEmitLocked(s, pending, now, stale, emits,
                                         drops_left, drops_right)
                  IN  /\ r.emits <= MaxEmits
                      /\ built' =
                            IF r.emits > emits
                            THEN [tL |-> newest_ts(s[left_id]),
                                  tR |-> newest_ts(s[right_id]),
                                  oldest |-> Min2(oldest_ts(s[left_id]),
                                                  oldest_ts(s[right_id])),
                                  ts |-> r.pending.ts]
                            ELSE built
                      /\ st' = r.st
                      /\ pending' = r.pending
                      /\ emits' = r.emits
                      /\ drops_left' = r.dl
                      /\ drops_right' = r.dr
                      /\ since_emit' =
                            IF r.emits > emits THEN NoneSince
                            ELSE [since_emit EXCEPT ![a.dev][a.kind] = TRUE]
                      /\ last_call' = [dev |-> a.dev, kind |-> a.kind,
                                       values |-> a.values,
                                       end |-> IF r.emits > emits
                                               THEN "row" ELSE "returned"]
    /\ UNCHANGED <<now, stale, lock, pc, arg, ncalls, handed, chk>>
    /\ UNCHANGED <<framerVars, chanVars, dispVars, reqVars, shutVars>>

\* Well-formed samples only, with the clock advancing between calls.
FeedSample == Feed(ValidCalls)

TripletNext ==
    \/ Tick
    \/ FeedSample

TripletSpec == SyncInit /\ [][TripletNext]_vars

\* Well-formed and malformed calls in any order.
FeedAny == Feed(ValidCalls \cup MalformedCalls)

MalformedSpec == SyncInit /\ [][FeedAny]_vars

Sides == {left_id, right_id}
OtherSide(d) == IF d = left_id THEN right_id ELSE left_id

\* C33 as stated: in every row built, each of the six constituent samples
\* arrived within max_skew_ms of the row's emit_ts.
C33_SamplesWithinSkew ==
    built # NoBuilt => built.ts - built.oldest <= 25

\* C33 as the code has it: in every row built, the newest arrival time of
\* each side is within max_skew_ms of emit_ts, emit_ts is the later of the
\* two, and no constituent sample arrived after emit_ts.
C33_NewestWithinSkew ==
    built # NoBuilt =>
        /\ built.ts = (IF built.tL >= built.tR THEN built.tL ELSE built.tR)
        /\ built.ts - built.tL <= 25
        /\ built.ts - built.tR <= 25
        /\ built.oldest <= built.ts

\* C33 witness: a row stamped 40 ms, both sides' newest samples arrived at
\* 40 ms, one of its samples arrived at 0 ms.
C33_Witness ==
    built = [tL |-> 40, tR |-> 40, oldest |-> 0, ts |-> 40]

\* C34: with stale_ms > 0, a side that holds samples, complete or not, whose
\* newest timestamp is more than stale_ms behind the clock when an update
\* of the other side runs is empty after that update and is in no row built
\* by it; with stale_ms = 0 a side is emptied only by the building of a row
\* or as the older side of a complete pair that is not aligned.
C34_StaleSideCleared ==
    [][ (now' = now /\ last_call'.end # "none" /\ last_call'.dev \in Sides) =>
          LET d == OtherSide(last_call'.dev)
          IN  /\ (stale > 0 /\ st[d] # DevStateInit
                            /\ now - newest_ts(st[d]) > stale) =>
                    (st'[d] = DevStateInit /\ emits' = emits)
              /\ (stale = 0 /\ st[d] # DevStateInit
                            /\ st'[d] = DevStateInit) =>
                    \/ emits' = emits + 1
                    \/ /\ ready(st[d])
                       /\ ready(st'[OtherSide(d)])
                       /\ newest_ts(st[d]) + 25 < newest_ts(st'[OtherSide(d)])
      ]_vars

\* C38: a row is built only when every one of its six samples was stored
\* after the previous row was built (the sample of the present call
\* included), it is one row, and it leaves both DeviceStates empty.
C38_SamplesUsedOnce ==
    [][ (emits' > emits) =>
          /\ emits' = emits + 1
          /\ st' = [d \in Sides |-> DevStateInit]
          /\ \A d \in Sides, k \in {"acc", "gyr", "quat"} :
                \/ since_emit[d][k]
                \/ (last_call'.dev = d /\ last_call'.kind = k)
          /\ since_emit' = [d \in Sides |->
                               [k \in {"acc", "gyr", "quat"} |-> FALSE]]
      ]_vars

\* C38 witness: a second row has just been built and both DeviceStates are
\* empty.
C38_Witness ==
    /\ emits = 2
    /\ last_call.end = "row"
    /\ st = [d \in Sides |-> DevStateInit]

\* A call of the kinds C37 lists: unknown device id, unknown kind, values
\* too short or not numeric.
IsMalformed(c) ==
    \/ c.dev \notin Sides
    \/ c.kind \notin {"acc", "gyr", "quat"}
    \/ Len(c.values) < (IF c.kind = "quat" THEN 4 ELSE 3)
    \/ \E i \in 1..Len(c.values) : c.values[i] = "x"

\* C37: an update with an unknown device id, an unknown kind, or values too
\* short or not numeric leaves both DeviceStates, the pending row and the
\* counters as they were, builds no row and returns.
C37_MalformedIgnored ==
    [][ (last_call' # last_call /\ IsMalformed(last_call')) =>
          /\ st' = st
          /\ pending' = pending
          /\ emits' = emits
          /\ drops_left' = drops_left
          /\ drops_right' = drops_right
          /\ last_call'.end = "returned"
      ]_vars

\* C37 witness: a quaternion of three elements was passed for the right
\* side while that side held an acc sample and the left side was complete;
\* the call returned.
C37_Witness ==
    /\ last_call = [dev |-> right_id, kind |-> "quat", values |-> V3,
                    end |-> "returned"]
    /\ st[right_id].acc # NoSample
    /\ st[right_id].quat = NoSample
    /\ ready(st[left_id])

\* ------------------------------------------------ the framer fed directly
\* The synchronizer as constructed and never called.
SyncIdle ==
    /\ now = 0
    /\ stale = 0
    /\ st = [d \in {left_id, right_id} |-> DevStateInit]
    /\ pending = NoRow
    /\ lock = NoThread
    /\ pc = [t \in Threads |-> "idle"]
    /\ arg = [t \in Threads |-> NoArg]
    /\ emits = 0
    /\ drops_left = 0
    /\ drops_right = 0
    /\ ncalls = 0
    /\ handed = <<>>
    /\ chk = NoCheck
    /\ FeedIdle

\* The k-th JointRow of a steady feed, emitted at k * 20 ms.
FeedRow(k) == [vals |-> <<k>>, ts |-> k * 20]

FramerSpecInit ==
    /\ SyncIdle
    /\ nfed = 0
    /\ \E w \in 1..MaxWindow, h \in -1..MaxWindow, cw \in WarmupChoices,
          gate \in BOOLEAN, sink \in BOOLEAN :
          FramerInit(w, h, cw, gate, sink)
    /\ ChanInit(MaxCapacity)
    /\ DispInit(<<>>, 0)
    /\ ReqInit
    /\ ShutIdle

\* A caller feeds the next row with add_buffer_row.
FeedBufferRow ==
    /\ nfed < MaxRows
    /\ nfed' = nfed + 1
    /\ AddBufferRow(FeedRow(nfed + 1))
    /\ UNCHANGED <<window_size, hop_size, calibration_windows, gate_actuation,
                   features_sink>>
    /\ UNCHANGED syncVars
    /\ UNCHANGED chanVars
    /\ UNCHANGED dispVars
    /\ UNCHANGED reqVars
    /\ UNCHANGED shutVars

FramerNext == FeedBufferRow

FramerSpec == FramerSpecInit /\ [][FramerNext]_vars

\* C4: with gating enabled and calibration_windows = 2, windows 1 and 2 reach
\* no sink, window 3 reaches the sink with gated = TRUE and window 4 with
\* gated = FALSE.
C4_CalibrationGating ==
    (calibration_windows = 2 /\ gate_actuation) =>
        \A i \in 1..Len(sinkLog) :
            /\ sinkLog[i].n > 2
            /\ sinkLog[i].n = 3 => sinkLog[i].gated
            /\ sinkLog[i].n = 4 => ~sinkLog[i].gated

\* --------------------------------------- the channel, publisher and consumer
ChanSpecInit ==
    /\ SyncIdle
    /\ nfed = 0
    /\ FramerInit(2, 1, 0, TRUE, TRUE)
    /\ \E cap \in 1..MaxCapacity : ChanInit(cap)
    /\ DispInit(<<>>, 0)
    /\ ReqInit
    /\ ShutIdle

\* StereotipyClassifier.recognize up to line 63, called with a feature vector
\* of n elements and the gated flag g.  predict_pericolosa_wrists_quat raises
\* ValueError on a vector that is not FEAT long, or the library call fails:
\* the except of line 59 logs and returns None.  Otherwise the event is built
\* with str(label) and bool(gated), and enqueue_drop_oldest is entered.
Recognize ==
    /\ ppc = "idle"
    /\ \E n \in FeatureSizes, g \in BOOLEAN :
          IF ~SizeOk(n)
          THEN /\ lastRec' = [NoRec EXCEPT !.size = n]
               /\ UNCHANGED <<pitem, npub, ppc>>
          ELSE \E fails \in BOOLEAN :
                 IF fails
                 THEN /\ lastRec' = [NoRec EXCEPT !.size = n, !.fails = TRUE]
                      /\ UNCHANGED <<pitem, npub, ppc>>
                 ELSE /\ npub < MaxEvents
                      /\ \E label \in ClassifierLabels :
                           /\ pitem' = [id |-> npub + 1,
                                        tag |-> TagString(label),
                                        gated |-> g]
                           /\ lastRec' = [size |-> n, fails |-> FALSE,
                                          label |-> label, gated |-> g,
                                          ret |-> NoEvent]
                      /\ npub' = npub + 1
                      /\ ppc' = "put"
    /\ UNCHANGED <<capacity, queue, dropped_count, pdropped, delivered,
                   inserted, published, auditDropped, lastRet, evicted>>
    /\ UNCHANGED <<syncVars, framerVars, dispVars, reqVars, shutVars>>

\* enqueue_drop_oldest, lines 32-35: the first put_nowait; recognize returns
\* the event when it was put.
PutFirst ==
    /\ ppc = "put"
    /\ LET end == IF PutRaisesFull(queue, capacity) THEN "Full" ELSE "ok"
       IN  IF end = "ok"
           THEN /\ queue' = Append(queue, pitem)
                /\ inserted' = inserted \cup {pitem.id}
                /\ published' = published \cup {pitem.id}
                /\ lastRet' = NoRet
                /\ lastRec' = [lastRec EXCEPT !.ret = pitem]
                /\ pitem' = NoEvent
                /\ ppc' = "idle"
           ELSE IF CatchesFull(end)
           THEN /\ ppc' = "get"
                /\ UNCHANGED <<queue, inserted, published, lastRet, pitem,
                               lastRec>>
           ELSE /\ lastRet' = [NoRet EXCEPT !.pair = FALSE, !.error = TRUE]
                /\ pitem' = NoEvent
                /\ ppc' = "idle"
                /\ UNCHANGED <<queue, inserted, published, lastRec>>
    /\ UNCHANGED <<capacity, dropped_count, pdropped, npub, delivered,
                   auditDropped, evicted>>
    /\ UNCHANGED <<syncVars, framerVars, dispVars, reqVars, shutVars>>

\* enqueue_drop_oldest, lines 37-41: the oldest item is taken out; if the
\* queue is empty by now the function returns (False, None).
GetOldest ==
    /\ ppc = "get"
    /\ IF queue = <<>>
       THEN /\ published' = published \cup {pitem.id}
            /\ lastRet' = NoRet
            /\ lastRec' = [lastRec EXCEPT !.ret = pitem]
            /\ pitem' = NoEvent
            /\ ppc' = "idle"
            /\ UNCHANGED <<queue, pdropped, evicted>>
       ELSE /\ pdropped' = Head(queue)
            /\ evicted' = evicted \cup {Head(queue).id}
            /\ queue' = WithoutOldest(queue)
            /\ ppc' = "put_again"
            /\ UNCHANGED <<published, lastRet, pitem, lastRec>>
    /\ UNCHANGED <<capacity, dropped_count, npub, delivered, inserted,
                   auditDropped>>
    /\ UNCHANGED <<syncVars, framerVars, dispVars, reqVars, shutVars>>

\* enqueue_drop_oldest, lines 42-48, and lines 64-79 of recognize: the second
\* put_nowait (Full is swallowed), the eviction counter of kind "imu", the
\* return of (True, dropped_item) and the DROPPED audit record, whose
\* log_event call is wrapped in `except Exception: pass`.
PutAgain ==
    /\ ppc = "put_again"
    /\ IF PutRaisesFull(queue, capacity)
       THEN UNCHANGED <<queue, inserted>>
       ELSE /\ queue' = Append(queue, pitem)
            /\ inserted' = inserted \cup {pitem.id}
    /\ dropped_count' = dropped_count + 1
    /\ published' = published \cup {pitem.id}
    /\ lastRet' = [NoRet EXCEPT !.dropped = TRUE, !.item = pdropped]
    /\ \E audit \in CallEnds :
          auditDropped' = IF audit = "ok" THEN Append(auditDropped, pdropped)
                          ELSE auditDropped
    /\ lastRec' = [lastRec EXCEPT !.ret = pitem]
    /\ pitem' = NoEvent
    /\ pdropped' = NoEvent
    /\ ppc' = "idle"
    /\ UNCHANGED <<capacity, npub, delivered, evicted>>
    /\ UNCHANGED <<syncVars, framerVars, dispVars, reqVars, shutVars>>

\* EventDispatcher._process_events, line 64: q.get returns the oldest event.
Consume ==
    /\ queue # <<>>
    /\ delivered' = Append(delivered, Head(queue))
    /\ queue' = Tail(queue)
    /\ UNCHANGED <<capacity, dropped_count, ppc, pitem, pdropped, npub,
                   inserted, published, auditDropped, lastRet, evicted,
                   lastRec>>
    /\ UNCHANGED <<syncVars, framerVars, dispVars, reqVars, shutVars>>

ChanNext ==
    \/ Recognize
    \/ PutFirst
    \/ GetOldest
    \/ PutAgain
    \/ Consume

ChanSpec == ChanSpecInit /\ [][ChanNext]_vars

\* ------------------------------------------- enqueue_drop_oldest, any kind
\* The kind argument: the two keys of _dropped_counts, another string, and
\* the default None ("" here: both are falsy at line 46).
NoKind == ""
EnqueueKinds == {"imu", "event", "other", NoKind}

\* Mutant: the tuple is returned whatever the kind.
KindAny(kind) == TRUE

\* `if kind:` of line 46.
KindGiven(kind) == kind # NoKind

\* enqueue_drop_oldest(q, item, kind), lines 32-48, called by one thread
\* with no other thread between its queue operations: the item is put; when
\* the queue was full the oldest item is taken out first, and the eviction
\* is counted and returned inside `if kind:`.  Without a kind the function
\* ends without a return statement and the caller gets None.
EnqueueCall ==
    /\ npub < MaxEvents
    /\ npub' = npub + 1
    /\ \E kind \in EnqueueKinds, label \in ClassifierLabels :
         LET item == [id |-> npub + 1, tag |-> TagString(label),
                      gated |-> FALSE]
             full == PutRaisesFull(queue, capacity)
         IN  /\ queue' = Append(IF full THEN WithoutOldest(queue) ELSE queue,
                                item)
             /\ dropped_count' = IF full /\ kind = "imu"
                                 THEN dropped_count + 1 ELSE dropped_count
             /\ evicted' = IF full THEN evicted \cup {Head(queue).id}
                           ELSE evicted
             /\ lastRet' =
                   IF ~full THEN [NoRet EXCEPT !.kind = kind]
                   ELSE IF KindGiven(kind)
                   THEN [NoRet EXCEPT !.kind = kind, !.dropped = TRUE,
                                      !.item = Head(queue)]
                   ELSE [NoRet EXCEPT !.kind = kind, !.pair = FALSE]
    /\ UNCHANGED <<capacity, ppc, pitem, pdropped, delivered, inserted,
                   published, auditDropped, lastRec>>
    /\ UNCHANGED <<syncVars, framerVars, dispVars, reqVars, shutVars>>

EnqueueNext ==
    \/ EnqueueCall
    \/ Consume

EnqueueSpec == ChanSpecInit /\ [][EnqueueNext]_vars

\* C39: every call of enqueue_drop_oldest, whatever its kind, returns a
\* pair: (False, None) when the item was put without eviction, (True, the
\* oldest item) when the oldest item was taken out to make room.
C39_AlwaysReturnsPair ==
    [][ (npub' = npub + 1) =>
          /\ lastRet'.pair
          /\ IF Len(queue) < capacity
             THEN /\ ~lastRet'.dropped
                  /\ lastRet'.item = NoEvent
                  /\ queue' = Append(queue, queue'[Len(queue')])
             ELSE /\ lastRet'.dropped
                  /\ lastRet'.item = Head(queue)
                  /\ queue' = Append(Tail(queue), queue'[Len(queue')])
      ]_vars


IdsOf(q) == {q[i].id : i \in 1..Len(q)}

\* C3: once publish(e) has returned, e was inserted into the channel; and
\* between publishes the most recently produced event is in the channel or
\* has been taken by the Dispatcher.
C3_PublishInserts ==
    /\ published \subseteq inserted
    /\ (ppc = "idle" /\ npub > 0) => npub \in IdsOf(queue) \cup IdsOf(delivered)


\* ------------------------------------------------- the dispatcher's loop
DispSpecInit ==
    /\ SyncIdle
    /\ nfed = 0
    /\ FramerInit(2, 1, 0, TRUE, TRUE)
    /\ ChanInit(MaxCapacity)
    /\ \E ids \in ActuatorConfigs, attempts \in AttemptChoices :
          DispInit(ids, attempts)
    /\ ReqInit
    /\ ShutIdle

\* The monotonic clock advances to its next reading.
DispTick ==
    /\ \E x \in DispClock :
          /\ x > dnow
          /\ \A y \in DispClock : y > dnow => x <= y
          /\ dnow' = x
    /\ UNCHANGED <<last_tag, last_actuation_time, policy, proc, run_act,
                   thread_alive>>
    /\ UNCHANGED <<syncVars, framerVars, chanVars, reqVars, shutVars>>

\* The `except Exception` clauses of lines 89, 119 and 125: whether the
\* handler catches the way a call ended.
CatchesNothing(end) == FALSE

Catches(end) == end = "raise"

\* One pass of the loop of _process_events for an event with stereotipy_tag
\* raw and gated flag g taken from the queue. trig is how
\* actuator_manager.trigger ends and aud how log_event ends when they are
\* called.  An exception no handler catches ends the thread.
ProcessOne(raw, g) ==
          LET tag == ParseTag(raw)
              now_time == dnow
              Done(branch, calls, called, trig, a) ==
                  proc' = [ raw |-> raw, gated |-> g, branch |-> branch,
                            before |-> last_actuation_time,
                            policy_calls |-> calls,
                            trigger_calls |-> IF called THEN 1 ELSE 0,
                            trigger_ok |-> called /\ trig = "ok",
                            audit |-> a ]
          IN  IF tag # last_tag
              THEN \E h \in handle(policy, raw), aud \in CallEnds :
                   \E trig \in IF h.result # NoResult THEN CallEnds ELSE {"ok"} :
                      LET \* the trigger's exception leaves the try of line 81
                          inner == /\ h.result # NoResult
                                   /\ trig = "raise"
                                   /\ ~Catches(trig)
                          audited == IF inner THEN "none" ELSE aud
                          escaped == /\ inner \/ audited = "raise"
                                     /\ ~Catches("raise")
                      IN  /\ policy' = h.ps
                          /\ last_actuation_time' =
                                IF h.result # NoResult
                                THEN (IF trig = "ok" THEN now_time
                                      ELSE last_actuation_time)
                                ELSE NoTime
                          /\ last_tag' = IF audited = "ok" THEN tag ELSE last_tag
                          /\ run_act' = IF h.result # NoResult /\ trig = "ok"
                                        THEN now_time ELSE NoTime
                          /\ thread_alive' = ~escaped
                          /\ Done("transition", 1, h.result # NoResult, trig,
                                  audited)
              ELSE IF tag \in {1, 2}
              THEN IF should_retry(last_actuation_time, now_time)
                   THEN \E h \in handle(policy, raw) :
                        \E trig \in IF h.result # NoResult THEN CallEnds ELSE {"ok"} :
                           /\ policy' = h.ps
                           /\ last_actuation_time' =
                                 IF h.result # NoResult /\ trig = "ok"
                                 THEN now_time
                                 ELSE last_actuation_time
                           /\ last_tag' = last_tag
                           /\ run_act' = IF h.result # NoResult /\ trig = "ok"
                                         THEN now_time ELSE run_act
                           /\ thread_alive' =
                                 ~( /\ h.result # NoResult
                                    /\ trig = "raise"
                                    /\ ~Catches(trig)
                                    /\ ~Catches("raise") )
                           /\ Done("retry", 1, h.result # NoResult, trig, "none")
                   ELSE /\ UNCHANGED <<policy, last_actuation_time, last_tag,
                                       run_act, thread_alive>>
                        /\ Done("cooldown", 0, FALSE, "ok", "none")
              ELSE /\ UNCHANGED <<policy, last_actuation_time, last_tag,
                                  run_act, thread_alive>>
                   /\ Done("inactive", 0, FALSE, "ok", "none")

\* The Dispatcher thread handles an event; which event is left open.
ProcessEvent ==
    /\ thread_alive
    /\ \E raw \in RawTags, g \in BOOLEAN : ProcessOne(raw, g)
    /\ UNCHANGED dnow
    /\ UNCHANGED <<syncVars, framerVars, chanVars, reqVars, shutVars>>

DispNext ==
    \/ DispTick
    \/ ProcessEvent

DispSpec == DispSpecInit /\ [][DispNext]_vars

\* A step of the dispatcher's loop (the clock is the only other step).
Processed == dnow' = dnow

\* C31: the Dispatcher triggers an actuator, with the command the policy
\* returned, only for an event whose tag is 1 or 2; for an event with any
\* other tag nothing is triggered.
C31_OnlyActiveTagsTrigger ==
    ParseTag(proc.raw) \notin {1, 2} => proc.trigger_calls = 0

\* C5: an event whose gated flag is true is recorded for audit, reaches
\* neither the policy nor the actuator manager, and leaves lastTag and
\* lastActuationTime as they were.
C5_GatedAuditOnly ==
    [][ (Processed /\ proc'.gated) =>
            /\ proc'.audit # "none"
            /\ proc'.policy_calls = 0
            /\ proc'.trigger_calls = 0
            /\ last_tag' = last_tag
            /\ last_actuation_time' = last_actuation_time ]_vars

\* The event of this step repeats lastTag, an active severity.
SameActiveTag ==
    /\ Processed
    /\ ParseTag(proc'.raw) = last_tag
    /\ last_tag \in {TAG_NON_DANGEROUS, TAG_DANGEROUS}

\* No actuation time is recorded, or the cooldown of 5 s has elapsed.
Due == last_actuation_time = -1 \/ dnow - last_actuation_time >= 5

\* Inside an unchanged-tag run the policy is called, and an actuation
\* triggered, only when due; two actuations of a run are 5 s apart or more.
CooldownSpacing ==
    /\ (proc'.policy_calls > 0 \/ proc'.trigger_calls > 0) => Due
    /\ (proc'.trigger_ok /\ run_act # -1) => dnow - run_act >= 5

C7_TransitionUpdatesLastTag ==
    [][ (Processed /\ ~proc'.gated /\ ParseTag(proc'.raw) # last_tag) =>
            /\ proc'.policy_calls = 1
            /\ proc'.trigger_calls <= 1
            /\ proc'.trigger_ok => last_actuation_time' = dnow
            /\ last_tag' = ParseTag(proc'.raw) ]_vars

\* --------------------------------------------------- claims on the framer
\* C11: every window handed to processing is exactly window_size consecutive
\* fed rows with their parallel timestamps, in arrival order, and a window is
\* cut only by a row that brings the buffer to window_size rows.
C11_WindowsAreFull ==
    /\ [](\A i \in 1..Len(winLog) :
            LET win == winLog[i]
            IN  /\ Len(win.rows) = window_size
                /\ Len(win.ts) = window_size
                /\ \A k \in 1..Len(win.rows) :
                      /\ win.rows[k][1] \in 1..nfed
                      /\ win.ts[k] = win.rows[k][1] * 20
                      /\ k > 1 => win.rows[k][1] = win.rows[k - 1][1] + 1)
    /\ [][Len(winLog') > Len(winLog) => Len(rows) + 1 >= window_size]_vars

\* Two windows were cut from a feed, with window_size 3.
C11_Witness ==
    /\ window_size = 3
    /\ Len(winLog) >= 2
    /\ winLog[2].rows[3][1] > 3

\* floor((R - W) / H) + 1, or 0 while R < W.
WindowCount(R, W, H) == IF R < W THEN 0 ELSE ((R - W) \div H) + 1

C19_ExtractorFailureConfined ==
    /\ [](/\ \A i \in 1..Len(extLog) :
               /\ ~extLog[i].ok =>
                     \A j \in 1..Len(sinkLog) : sinkLog[j].n # extLog[i].n
               /\ (extLog[i].ok /\ features_sink) =>
                     \E j \in 1..Len(sinkLog) : sinkLog[j].n = extLog[i].n
          /\ \A n \in 1..windows_emitted :
               n > calibration_windows =>
                     \E i \in 1..Len(extLog) : extLog[i].n = n)
    /\ [][(Len(extLog') > Len(extLog) /\ ~extLog'[Len(extLog')].ok) =>
              (addResult' = "returned" /\ sinkLog' = sinkLog)]_vars

\* The extractor failed on a window and a later window reached the sink.
C19_Witness ==
    \E i \in 1..Len(extLog) :
        /\ ~extLog[i].ok
        /\ \E j \in 1..Len(sinkLog) : sinkLog[j].n > extLog[i].n

\* The rows two windows have in common.
SharedRows(a, b) ==
    {r \in {a[j] : j \in 1..Len(a)} : \E j \in 1..Len(b) : b[j] = r}

\* C35: for 1 <= hop_size <= window_size each window after the first starts
\* hop_size rows after the previous one and its first
\* window_size - hop_size rows are the last rows of the previous one, in
\* order, and no other row is shared; for hop_size <= 0 every window leaves
\* the buffer empty and consecutive windows share no row.
C35_WindowsAdvanceByHop ==
    /\ [](\A i \in 1..(Len(winLog) - 1) :
            LET a == winLog[i].rows
                b == winLog[i + 1].rows
            IN  /\ (1 <= hop_size /\ hop_size <= window_size) =>
                      /\ b[1][1] = a[1][1] + hop_size
                      /\ \A j \in 1..(window_size - hop_size) :
                            b[j] = a[j + hop_size]
                      /\ Cardinality(SharedRows(a, b)) = window_size - hop_size
                /\ (hop_size <= 0) => SharedRows(a, b) = {})
    /\ [][(hop_size <= 0 /\ winLog' # winLog) => (rows' = <<>> /\ ts_list' = <<>>)]_vars

\* C35 witness: window_size 3 and hop_size 2, three windows cut from seven
\* rows.
C35_Witness ==
    /\ window_size = 3
    /\ hop_size = 2
    /\ Len(winLog) = 3
    /\ winLog[3].rows = <<<<5>>, <<6>>, <<7>>>>

\* C28: add_buffer_row returns normally for every row, and a row that leaves
\* fewer than window_size rows buffered is only stored with its timestamp:
\* no window is produced and nothing is raised to the caller.
C28_AddRowReturns ==
    [][nfed' > nfed =>
          /\ addResult' = "returned"
          /\ Len(rows) + 1 < window_size =>
                /\ rows' = Append(rows, <<nfed'>>)
                /\ ts_list' = Append(ts_list, nfed' * 20)
                /\ winLog' = winLog]_vars

\* C30: every extractor call with doCalibrate = FALSE comes after a call with
\* doCalibrate = TRUE that returned, and every feature vector given to the
\* sink comes from an extractor whose calibration call returned.
C30_CalibratedBeforeUse ==
    /\ \A i \in 1..Len(extLog) :
          ~extLog[i].doCalibrate =>
              \E j \in 1..(i - 1) : extLog[j].doCalibrate /\ extLog[j].ok
    /\ \A i \in 1..Len(sinkLog) :
          \E j \in 1..Len(extLog) :
              /\ extLog[j].n <= sinkLog[i].n
              /\ extLog[j].doCalibrate
              /\ extLog[j].ok

\* -------------------------------------------------- claims on the channel
\* C14: under any interleaving of publish and consume the channel holds at
\* most capacity events, for every capacity >= 1.
C14_AtMostCapacity ==
    /\ capacity >= 1
    /\ Len(queue) <= capacity

\* The channel is full and an eviction has taken place.
C14_Witness ==
    /\ Len(queue) = capacity
    /\ dropped_count > 0
    /\ npub > capacity


\* C15: while the consumer has taken nothing, after n complete publishes into
\* a channel of capacity c the channel holds the last min(n, c) events in
\* publication order and the "imu" eviction counter is max(0, n - c).
C15_LastEventsKept ==
    (ppc = "idle" /\ delivered = <<>>) =>
        LET kept == Min2(npub, capacity)
        IN  /\ Len(queue) = kept
            /\ \A i \in 1..Len(queue) : queue[i].id = npub - kept + i
            /\ dropped_count = Max2(0, npub - capacity)

\* Capacity 2, three events published, none consumed: the second and the
\* third are queued and one eviction is counted.
C15_Witness ==
    /\ ppc = "idle"
    /\ delivered = <<>>
    /\ capacity = 2
    /\ npub = 3
    /\ Len(queue) = 2
    /\ queue[1].id = 2
    /\ queue[2].id = 3
    /\ dropped_count = 1

\* A step of the publishing thread inside enqueue_drop_oldest.
PublisherStep == PutFirst \/ GetOldest \/ PutAgain

\* Steps left to the publishing thread at the position p.
StepsLeft(p) ==
    CASE p = "put" -> 3
      [] p = "get" -> 2
      [] p = "put_again" -> 1
      [] OTHER -> 0

\* C23: publish never waits: at every position inside enqueue_drop_oldest the
\* publishing thread can take its next step whatever the queue holds and
\* whether or not the Dispatcher consumes, every step brings it nearer to its
\* return, and it ends by returning the event to recognize's caller: a full
\* queue is never reported as an error.
C23_PublishNeverWaits ==
    /\ [](ppc # "idle" => ENABLED PublisherStep)
    /\ [](~lastRet.error)
    /\ [][(ppc # "idle" /\ ppc' # ppc) =>
              /\ StepsLeft(ppc') < StepsLeft(ppc)
              /\ ppc' = "idle" => (lastRec'.ret = pitem /\ lastRet'.pair)]_vars

\* Nothing was consumed, the queue is full, and a publish returned after
\* evicting the oldest event.
C23_Witness ==
    /\ delivered = <<>>
    /\ Len(queue) = capacity
    /\ ppc = "idle"
    /\ lastRet.dropped
    /\ lastRec.ret.id = npub
    /\ dropped_count >= 1

\* C24: an event evicted by publish is never delivered to the Dispatcher, and
\* once the publish has returned each evicted event has exactly one DROPPED
\* audit record.
C24_EvictedAudited ==
    /\ evicted \cap IdsOf(delivered) = {}
    /\ \A i, j \in 1..Len(auditDropped) :
          i # j => auditDropped[i].id # auditDropped[j].id
    /\ ppc = "idle" => IdsOf(auditDropped) = evicted

\* A recognize() call made by this step.
RecognizeCalled == ppc = "idle" /\ (ppc' = "put" \/ lastRec' # lastRec)

MaxEpisode == 6

\* Actuator lists and policy.attempts values the policy is built with.
PolicyConfigs ==
    { <<>>,
      <<"led_a">>,
      <<"led_a", "meta_b", "speaker_c">> }

PolicyAttempts == {0, 3, 5}

\* The stereotipy_tag values of the requests: the classifier's strings and
\* one that int() rejects.
RequestTags == RawTags \cup {"x"}

PolicySpecInit ==
    /\ SyncIdle
    /\ nfed = 0
    /\ FramerInit(2, 1, 0, TRUE, TRUE)
    /\ ChanInit(MaxCapacity)
    /\ \E ids \in PolicyConfigs, attempts \in PolicyAttempts :
          DispInit(ids, attempts)
    /\ ReqInit
    /\ ShutIdle

\* A caller passes an event with stereotipy_tag raw to policy.handle.
Handle ==
    /\ \E raw \in RequestTags :
          LET tag == ParseTag(raw)
              inactive == tag \in {TAG_NO_CLASS, TAG_NON_STEREOTIPY, NoneTag}
              fresh == tag # policy.current_tag
          IN  /\ inactive \/ fresh \/ Len(assigned) < MaxEpisode
              /\ \E h \in handle(policy, raw) :
                    /\ policy' = h.ps
                    /\ last_result' = h.result
                    /\ last_req' = raw
                    /\ last_chosen' = h.chosen
                    /\ tag_before' = policy.current_tag
                    /\ assigned' =
                          IF inactive THEN <<>>
                          ELSE IF h.result = NoResult
                          THEN (IF fresh THEN <<>> ELSE assigned)
                          ELSE IF fresh THEN <<h.result.actuator_id>>
                          ELSE Append(assigned, h.result.actuator_id)
    /\ UNCHANGED <<dnow, last_tag, last_actuation_time, proc, run_act,
                   thread_alive>>
    /\ UNCHANGED <<syncVars, framerVars, chanVars, shutVars>>

PolicyNext == Handle

PolicySpec == PolicySpecInit /\ [][PolicyNext]_vars

\* Six requests for tag 1 in one episode, three actuators, N = 3.
SixMildRequests ==
    /\ policy.actuator_ids = <<"led_a", "meta_b", "speaker_c">>
    /\ policy.retries_per_actuator = 3
    /\ policy.current_tag = TAG_NON_DANGEROUS
    /\ Len(assigned) = 6

\* C16 as stated: with actuators [a, b, c] and N = 3, six consecutive
\* requests for tag 1 are answered with a, a, a, b, b, b.
C16_RotationInListOrder ==
    SixMildRequests =>
        assigned = <<"led_a", "led_a", "led_a", "meta_b", "meta_b", "meta_b">>

\* C16 amended: the six requests are answered with x, x, x, y, y, y for some
\* registered actuators x and y with y # x.
C16_RotationToAnother ==
    SixMildRequests =>
        /\ \A i \in 1..6 : assigned[i] \in RangeOf(policy.actuator_ids)
        /\ assigned[2] = assigned[1]
        /\ assigned[3] = assigned[1]
        /\ assigned[4] # assigned[1]
        /\ assigned[5] = assigned[4]
        /\ assigned[6] = assigned[4]

\* The six requests were answered with a, a, a, b, b, b.
C16_Witness ==
    /\ SixMildRequests
    /\ assigned = <<"led_a", "led_a", "led_a", "meta_b", "meta_b", "meta_b">>

\* The tag of the request handled in this step, and whether it is inactive.
ReqTag == ParseTag(last_req')
ReqInactive == ReqTag \in {0, 3, -1}
Remembered(ps, t) == ps.last_success_actuator[t]

\* C17: an inactive request that reaches the policy in an episode of tag t in
\* {1, 2} on actuator x records x as remembered for t; the remembered actuator
\* of t changes in no other step; and a request that starts an episode of t
\* is answered with the remembered actuator when it is registered.
C17_SuccessMemory ==
    [][ /\ ( /\ ReqInactive
             /\ policy.current_tag \in {1, 2}
             /\ policy.current_actuator # "" ) =>
                Remembered(policy', policy.current_tag) = policy.current_actuator
        /\ \A t \in {1, 2} :
              Remembered(policy', t) # Remembered(policy, t) =>
                  (ReqInactive /\ policy.current_tag = t)
        /\ ( /\ ReqTag \in {1, 2}
             /\ ReqTag # policy.current_tag
             /\ Remembered(policy, ReqTag) \in RangeOf(policy.actuator_ids) ) =>
                /\ last_result'.actuator_id = Remembered(policy, ReqTag)
                /\ policy'.current_actuator = Remembered(policy, ReqTag)
      ]_vars

\* An episode of tag 1 ended with an inactive request and the next episode
\* of tag 1 began on the remembered actuator although three are registered.
C17_Witness ==
    /\ Len(policy.actuator_ids) = 3
    /\ policy.current_tag = 1
    /\ Remembered(policy, 1) # NoActuator
    /\ assigned = <<Remembered(policy, 1)>>

\* C18: an inactive request returns none and leaves currentTag and
\* currentActuator none and both counters 0; it changes the remembered
\* actuator of no tag other than the one of the episode it ends; the next
\* active request is answered from preset 0 and is the first of N attempts.
C18_InactiveResets ==
    [][ /\ ReqInactive =>
              /\ last_result' = NoResult
              /\ policy'.current_tag = -1
              /\ policy'.current_actuator = ""
              /\ policy'.attempts_on_current = 0
              /\ policy'.variation_idx = 0
              /\ \A t \in {1, 2} :
                    t # policy.current_tag =>
                        Remembered(policy', t) = Remembered(policy, t)
        /\ ( /\ ~ReqInactive
             /\ policy.current_tag = -1
             /\ policy.actuator_ids # <<>> ) =>
                /\ last_result' # NoResult
                /\ last_result'.kind \in {"led_", "meta_"} =>
                      last_result'.variant = 1
                /\ policy'.attempts_on_current = 1
                /\ policy'.variation_idx = 1
      ]_vars

\* An inactive request ended an episode of tag 1 that had used two presets.
C18_Witness ==
    /\ last_req \in {"0", "3", "x"}
    /\ policy.current_tag = NoneTag
    /\ policy.variation_idx = 0
    /\ Remembered(policy, 1) # NoActuator
    /\ Remembered(policy, 2) = NoActuator

\* The place of the last answered request in its run of N requests on one
\* actuator: 1 for the first request of an episode and after a rotation.
PlaceInRun(q, N) == ((Len(q) - 1) % N) + 1

\* C36: a request for tag 1 or 2 that arrives while the episode of the other
\* of the two is running starts a new episode: it is answered from preset 0
\* on the new tag's remembered actuator if that is registered and on any
\* registered actuator otherwise, it counts as attempt 1, and the remembered
\* actuator of neither tag changes.
C36_SeverityChangeRestarts ==
    [][ ( /\ ReqTag \in {1, 2}
          /\ policy.current_tag \in {1, 2}
          /\ policy.current_tag # ReqTag
          /\ policy.current_actuator # "" ) =>
             /\ policy'.current_tag = ReqTag
             /\ last_result' # NoResult
             /\ last_result'.mild = (ReqTag = 1)
             /\ last_result'.kind \in {"led_", "meta_"} =>
                   last_result'.variant = 1
             /\ policy'.attempts_on_current = 1
             /\ policy'.variation_idx = 1
             /\ policy'.current_actuator = last_result'.actuator_id
             /\ IF Remembered(policy, ReqTag) \in RangeOf(policy.actuator_ids)
                THEN last_result'.actuator_id = Remembered(policy, ReqTag)
                ELSE last_result'.actuator_id \in RangeOf(policy.actuator_ids)
             /\ \A t \in {1, 2} : Remembered(policy', t) = Remembered(policy, t)
             /\ assigned' = <<last_result'.actuator_id>>
      ]_vars

\* C36 witness: an episode of tag 1 was running when a request for tag 2
\* came; the answer is a first attempt for tag 2, with three actuators
\* registered and none remembered for either tag.
C36_Witness ==
    /\ tag_before = 1
    /\ last_req = "2"
    /\ policy.current_tag = 2
    /\ policy.attempts_on_current = 1
    /\ Len(policy.actuator_ids) = 3
    /\ \A t \in {1, 2} : Remembered(policy, t) = NoActuator
    /\ last_result.mild = FALSE

\* C26: the k-th consecutive command on one light or haptic actuator within
\* an episode carries preset (k - 1) mod 3, of the mild table when the tag is
\* 1 and of the strong table when it is 2; the count restarts with each
\* episode and after each rotation.
C26_PresetCycle ==
    [][ ( /\ ReqTag \in {1, 2}
          /\ last_result' # NoResult
          /\ last_result'.kind \in {"led_", "meta_"} ) =>
            LET k == PlaceInRun(assigned', policy.retries_per_actuator)
                preset == ((k - 1) % 3) + 1
                table ==
                    IF last_result'.kind = "led_"
                    THEN (IF ReqTag = 1 THEN led_variants_mild
                          ELSE led_variants_strong)
                    ELSE (IF ReqTag = 1 THEN meta_variants_mild
                          ELSE meta_variants_strong)
            IN  /\ last_result'.actuator_id = assigned'[Len(assigned')]
                /\ last_result'.variant = preset
                /\ last_result'.mild = (ReqTag = 1)
                /\ ParamsOf(last_result', last_result'.mild) = table[preset]
      ]_vars

\* With N = 5 the fifth consecutive command on the light actuator, for tag
\* 2, carries the second strong preset.
C26_Witness ==
    /\ policy.retries_per_actuator = 5
    /\ last_req = "2"
    /\ Len(assigned) = 5
    /\ last_result.kind = "led_"
    /\ last_result.variant = 2
    /\ ~last_result.mild

\* C29: within one episode the policy answers N consecutive requests with
\* one actuator; the request after them is answered with a different
\* actuator when more than one is registered and with the same one when it
\* is the only one, and the attempt and variation counters restart with it.
C29_RotationAfterN ==
    LET N == policy.retries_per_actuator
    IN  /\ \A i \in 1..(Len(assigned) - 1) :
              IF i % N = 0
              THEN IF Len(policy.actuator_ids) > 1
                   THEN assigned[i + 1] # assigned[i]
                   ELSE assigned[i + 1] = assigned[i]
              ELSE assigned[i + 1] = assigned[i]
        /\ Len(assigned) > 0 =>
              /\ policy.current_actuator = assigned[Len(assigned)]
              /\ policy.attempts_on_current = ((Len(assigned) - 1) % N) + 1
              /\ policy.variation_idx = ((Len(assigned) - 1) % N) + 1

\* With N = 5 and three actuators the sixth request of an episode was
\* answered with another actuator than the first five.
C29_Witness ==
    /\ policy.retries_per_actuator = 5
    /\ Len(policy.actuator_ids) = 3
    /\ Len(assigned) = 6
    /\ assigned[5] = assigned[1]
    /\ assigned[6] # assigned[5]
    /\ policy.attempts_on_current = 1

\* --------------------------- the policy built with ids of unknown kind
\* Actuator lists a direct caller builds the policy with: ids whose prefix is
\* none of led_, speaker_, meta_ among them.
FallbackConfigs ==
    { <<"fan_d">>,
      <<"fan_d", "led_a">>,
      <<"fan_d", "fan_e", "meta_b">> }

FallbackSpecInit ==
    /\ SyncIdle
    /\ nfed = 0
    /\ FramerInit(2, 1, 0, TRUE, TRUE)
    /\ ChanInit(MaxCapacity)
    /\ \E ids \in FallbackConfigs, attempts \in PolicyAttempts :
          DispInit(ids, attempts)
    /\ ReqInit
    /\ ShutIdle

FallbackSpec == FallbackSpecInit /\ [][PolicyNext]_vars

\* C27: when the actuator first chosen for an active request is of
\* unrecognised kind, the policy chooses once more, another actuator when more
\* than one is registered; a recognised second choice is returned as a
\* command, the first attempt from preset 0; otherwise none is returned and
\* both counters stay 0.  A recognised first choice is returned itself.
C27_UnknownKindFallback ==
    [][ (~ReqInactive /\ last_chosen' # "") =>
          IF KindOf(last_chosen') \in {"led_", "speaker_", "meta_"}
          THEN /\ last_result'.actuator_id = last_chosen'
               /\ policy'.current_actuator = last_chosen'
          ELSE /\ policy'.current_actuator \in RangeOf(policy.actuator_ids)
               /\ Len(policy.actuator_ids) > 1 =>
                     policy'.current_actuator # last_chosen'
               /\ Len(policy.actuator_ids) = 1 =>
                     policy'.current_actuator = last_chosen'
               /\ IF KindOf(policy'.current_actuator)
                        \in {"led_", "speaker_", "meta_"}
                  THEN /\ last_result' # NoResult
                       /\ last_result'.actuator_id = policy'.current_actuator
                       /\ last_result'.kind \in {"led_", "meta_"} =>
                             last_result'.variant = 1
                       /\ policy'.attempts_on_current = 1
                       /\ policy'.variation_idx = 1
                  ELSE /\ last_result' = NoResult
                       /\ policy'.attempts_on_current = 0
                       /\ policy'.variation_idx = 0
      ]_vars

\* The first choice was of unknown kind and the second, the haptic
\* actuator, was returned.
C27_Witness ==
    /\ last_chosen = "fan_d"
    /\ last_result.actuator_id = "meta_b"
    /\ policy.attempts_on_current = 1

\* C20: when actuator_manager.trigger raises while an event is handled, the
\* error stays with that event: a transition is still recorded for audit, the
\* loop keeps running and the next event can be processed.
C20_TriggerErrorConfined ==
    /\ [][ (Processed /\ proc'.trigger_calls = 1 /\ ~proc'.trigger_ok) =>
              /\ thread_alive'
              /\ proc'.branch = "transition" => proc'.audit # "none"
              /\ last_actuation_time' = last_actuation_time ]_vars
    /\ [](thread_alive => ENABLED ProcessEvent)

\* A trigger raised on a transition and the loop is still running.
C20_Witness ==
    /\ proc.branch = "transition"
    /\ proc.trigger_calls = 1
    /\ ~proc.trigger_ok
    /\ proc.audit = "ok"
    /\ thread_alive

\* ------------------------------------------- the Dispatcher thread's loop
\* The `while not self._stop_event.is_set()` test of line 62.
LoopIgnoresStop(stop) == TRUE

LoopContinues(stop) == ~stop

\* Line 62: the loop test; the thread ends when the stop signal is set.
LoopTest ==
    /\ wpc = "test"
    /\ IF LoopContinues(stop_event)
       THEN /\ wpc' = "get"
            /\ UNCHANGED thread_alive
       ELSE /\ wpc' = "exited"
            /\ thread_alive' = FALSE
    /\ UNCHANGED <<dnow, last_tag, last_actuation_time, policy, proc, run_act>>
    /\ UNCHANGED <<stop_event, wevent, mpc, mnext, handled_after_stop,
                   polls_after_stop, tstop, tpc, link, rlock>>
    /\ UNCHANGED <<syncVars, framerVars, chanVars, reqVars>>

\* Line 64: q.get(timeout=0.5) returns the oldest event.
GetEvent ==
    /\ wpc = "get"
    /\ queue # <<>>
    /\ wevent' = Head(queue)
    /\ queue' = Tail(queue)
    /\ delivered' = Append(delivered, Head(queue))
    /\ wpc' = "handle"
    /\ UNCHANGED <<capacity, dropped_count, ppc, pitem, pdropped, npub,
                   inserted, published, auditDropped, lastRet, evicted,
                   lastRec>>
    /\ UNCHANGED <<stop_event, mpc, mnext, handled_after_stop,
                   polls_after_stop, tstop, tpc, link, rlock>>
    /\ UNCHANGED <<syncVars, framerVars, dispVars, reqVars>>

\* Lines 64-66: the queue stayed empty for the 0.5 s of the poll; q.get
\* raises Empty and the loop goes back to its test.
GetTimeout ==
    /\ wpc = "get"
    /\ queue = <<>>
    /\ wpc' = "test"
    /\ polls_after_stop' = IF stop_event THEN Min2(polls_after_stop + 1, 2)
                           ELSE polls_after_stop
    /\ UNCHANGED <<stop_event, wevent, mpc, mnext, handled_after_stop, tstop,
                   tpc, link, rlock>>
    /\ UNCHANGED <<syncVars, framerVars, chanVars, dispVars, reqVars>>

\* Lines 67-131: the event taken is handled and the loop goes back to its
\* test.
WorkerHandle ==
    /\ wpc = "handle"
    /\ ProcessOne(wevent.tag, wevent.gated)
    /\ wpc' = IF thread_alive' THEN "test" ELSE "exited"
    /\ wevent' = NoEvent
    /\ handled_after_stop' = IF stop_event THEN Min2(handled_after_stop + 1, 2)
                             ELSE handled_after_stop
    /\ UNCHANGED dnow
    /\ UNCHANGED <<stop_event, mpc, mnext, polls_after_stop, tstop, tpc, link,
                   rlock>>
    /\ UNCHANGED <<syncVars, framerVars, chanVars, reqVars>>

\* EventDispatcher.stop, lines 55-56, called by main(): the stop signal is
\* set and the caller joins the thread.
StopDispatcher ==
    /\ mpc = "running"
    /\ stop_event' = TRUE
    /\ mpc' = "join_dispatcher"
    /\ UNCHANGED <<wpc, wevent, mnext, handled_after_stop, polls_after_stop,
                   tstop, tpc, link, rlock>>
    /\ UNCHANGED <<syncVars, framerVars, chanVars, dispVars, reqVars>>

\* EventDispatcher.stop, lines 56-58: join() returns once the thread has
\* ended (at once when is_alive() was False) and stop() returns.
JoinDispatcher ==
    /\ mpc = "join_dispatcher"
    /\ ~thread_alive
    /\ mpc' = "dispatcher_stopped"
    /\ UNCHANGED <<stop_event, wpc, wevent, mnext, handled_after_stop,
                   polls_after_stop, tstop, tpc, link, rlock>>
    /\ UNCHANGED <<syncVars, framerVars, chanVars, dispVars, reqVars>>

\* StereotipyClassifier.recognize, lines 66-75, with enqueue_drop_oldest,
\* lines 32-48, as one step of the classifier's thread: the event is put,
\* and when the queue was full the oldest event is removed first and
\* counted.  The histories kept for the channel's own properties are not
\* recorded here.
PublishEvent ==
    /\ npub < MaxEvents
    /\ \E label \in ClassifierLabels, g \in BOOLEAN :
         LET event == [id |-> npub + 1, tag |-> TagString(label),
                       gated |-> g]
             full == Len(queue) >= capacity
         IN /\ queue' = Append(IF full THEN Tail(queue) ELSE queue, event)
            /\ dropped_count' = IF full THEN dropped_count + 1
                                ELSE dropped_count
    /\ npub' = npub + 1
    /\ UNCHANGED <<capacity, ppc, pitem, pdropped, delivered, inserted,
                   published, auditDropped, lastRet, evicted, lastRec>>
    /\ UNCHANGED <<syncVars, framerVars, dispVars, reqVars, shutVars>>

\* A step of the Dispatcher thread.
WorkerStep == LoopTest \/ GetEvent \/ GetTimeout \/ WorkerHandle

\* The Dispatcher with one light actuator, the classifier publishing events
\* and main() free to call dispatcher.stop().
StopSpecInit ==
    /\ SyncIdle
    /\ nfed = 0
    /\ FramerInit(2, 1, 0, TRUE, TRUE)
    /\ ChanInit(MaxCapacity)
    /\ DispInit(<<"led_a">>, 0)
    /\ ReqInit
    /\ ShutIdle

StopNext ==
    \/ PublishEvent
    \/ LoopTest
    \/ GetEvent
    \/ GetTimeout
    \/ WorkerHandle
    \/ StopDispatcher
    \/ JoinDispatcher

\* The Dispatcher thread and the thread inside join() are scheduled; nothing
\* obliges the classifier to publish or main() to stop.
StopSpec ==
    /\ StopSpecInit
    /\ [][StopNext]_vars
    /\ WF_vars(WorkerStep)
    /\ WF_vars(JoinDispatcher)

\* C21: once stop() has set the stop signal the Dispatcher thread ends the
\* handling of at most one more event and sees at most one more poll
\* timeout, then leaves its loop; stop() returns, and when it has returned
\* the thread has ended.
C21_StopEndsWorker ==
    /\ [](handled_after_stop <= 1)
    /\ [](polls_after_stop <= 1)
    /\ [](mpc = "dispatcher_stopped" => (~thread_alive /\ wpc = "exited"))
    /\ stop_event ~> (mpc = "dispatcher_stopped")

\* stop() returned after the thread handled one more event, with another
\* event still queued.
C21_Witness ==
    /\ mpc = "dispatcher_stopped"
    /\ handled_after_stop = 1
    /\ queue # <<>>
    /\ ~thread_alive

\* --------------------------------------- device workers and the shutdown
\* BlueCoinThread._connect and run, lines 112-119 and 128-146: connect
\* attempts until one succeeds or the stop signal is seen.
SensorConnect(t) ==
    /\ tpc[t] = "connect"
    /\ IF link[t] = "reachable"
       THEN IF tstop[t]
            THEN /\ tpc' = [tpc EXCEPT ![t] = "done"]
                 /\ UNCHANGED link
            ELSE /\ tpc' = [tpc EXCEPT ![t] = "listen"]
                 /\ link' = [link EXCEPT ![t] = "connected"]
       ELSE /\ tstop[t]
            /\ tpc' = [tpc EXCEPT ![t] = "done"]
            /\ UNCHANGED link
    /\ UNCHANGED <<stop_event, wpc, wevent, mpc, mnext, handled_after_stop,
                   polls_after_stop, tstop, rlock>>
    /\ UNCHANGED <<syncVars, framerVars, chanVars, dispVars, reqVars>>

\* BlueCoinThread._listen, lines 168-181: the loop ends on the stop signal;
\* a node that is not connected sends the thread to _handle_reconnection.
SensorListen(t) ==
    /\ tpc[t] = "listen"
    /\ IF tstop[t]
       THEN /\ tpc' = [tpc EXCEPT ![t] = "done"]
            /\ link' = [link EXCEPT ![t] =
                            IF @ = "connected" THEN "reachable" ELSE @]
       ELSE /\ link[t] # "connected"
            /\ tpc' = [tpc EXCEPT ![t] = "acquire"]
            /\ UNCHANGED link
    /\ UNCHANGED <<stop_event, wpc, wevent, mpc, mnext, handled_after_stop,
                   polls_after_stop, tstop, rlock>>
    /\ UNCHANGED <<syncVars, framerVars, chanVars, dispVars, reqVars>>

\* `with device_reconnection_lock:` (bluecoin.py:185, speaker.py:133): the
\* thread waits until the lock is free.
AcquireReconnectionLock(t) ==
    /\ tpc[t] = "acquire"
    /\ rlock = NoThread
    /\ rlock' = t
    /\ tpc' = [tpc EXCEPT ![t] = "reconnect"]
    /\ UNCHANGED <<stop_event, wpc, wevent, mpc, mnext, handled_after_stop,
                   polls_after_stop, tstop, link>>
    /\ UNCHANGED <<syncVars, framerVars, chanVars, dispVars, reqVars>>

\* BlueCoinThread._handle_reconnection, lines 186-207, and
\* SpeakerThread._reconnection_attempts, lines 243-265, both inside the lock:
\* attempts are repeated until one succeeds or the thread's own stop signal
\* is seen; then the lock is released.
Reconnect(t) ==
    /\ tpc[t] = "reconnect"
    /\ tstop[t] \/ link[t] = "reachable"
    /\ link' = [link EXCEPT ![t] = IF tstop[t] THEN @ ELSE "connected"]
    /\ rlock' = NoThread
    /\ tpc' = [tpc EXCEPT ![t] = IF t \in Sensors THEN "listen" ELSE "loop"]
    /\ UNCHANGED <<stop_event, wpc, wevent, mpc, mnext, handled_after_stop,
                   polls_after_stop, tstop>>
    /\ UNCHANGED <<syncVars, framerVars, chanVars, dispVars, reqVars>>

\* SpeakerThread.run, lines 129-160: the loop ends on the stop signal; a
\* speaker that is not connected sends the thread to the reconnection.
SpeakerLoop ==
    /\ tpc[speaker_id] = "loop"
    /\ IF tstop[speaker_id]
       THEN /\ tpc' = [tpc EXCEPT ![speaker_id] = "done"]
            /\ link' = [link EXCEPT ![speaker_id] =
                            IF @ = "connected" THEN "reachable" ELSE @]
       ELSE /\ link[speaker_id] # "connected"
            /\ tpc' = [tpc EXCEPT ![speaker_id] = "acquire"]
            /\ UNCHANGED link
    /\ UNCHANGED <<stop_event, wpc, wevent, mpc, mnext, handled_after_stop,
                   polls_after_stop, tstop, rlock>>
    /\ UNCHANGED <<syncVars, framerVars, chanVars, dispVars, reqVars>>

\* A device drops its connection and is out of reach.
LinkLost(t) ==
    /\ link[t] = "connected"
    /\ link' = [link EXCEPT ![t] = "unreachable"]
    /\ UNCHANGED <<stop_event, wpc, wevent, mpc, mnext, handled_after_stop,
                   polls_after_stop, tstop, tpc, rlock>>
    /\ UNCHANGED <<syncVars, framerVars, chanVars, dispVars, reqVars>>

\* A device comes back within reach.
DeviceBack(t) ==
    /\ link[t] = "unreachable"
    /\ link' = [link EXCEPT ![t] = "reachable"]
    /\ UNCHANGED <<stop_event, wpc, wevent, mpc, mnext, handled_after_stop,
                   polls_after_stop, tstop, tpc, rlock>>
    /\ UNCHANGED <<syncVars, framerVars, chanVars, dispVars, reqVars>>

\* BlueCoinThread.stop (lines 122-124) and SpeakerThread.stop (lines
\* 180-183), called in turn by the stop_all of main(): the worker's stop
\* signal is set and the caller joins it.
StopWorker ==
    /\ mpc \in {"dispatcher_stopped", "worker_stopped"}
    /\ tstop' = [tstop EXCEPT ![StopOrder[mnext]] = TRUE]
    /\ mpc' = "join_worker"
    /\ UNCHANGED <<stop_event, wpc, wevent, mnext, handled_after_stop,
                   polls_after_stop, tpc, link, rlock>>
    /\ UNCHANGED <<syncVars, framerVars, chanVars, dispVars, reqVars>>

\* join() returns once the worker has ended; after the last worker main()
\* is done.
JoinWorker ==
    /\ mpc = "join_worker"
    /\ tpc[StopOrder[mnext]] = "done"
    /\ mnext' = mnext + 1
    /\ mpc' = IF mnext = Len(StopOrder) THEN "done" ELSE "worker_stopped"
    /\ UNCHANGED <<stop_event, wpc, wevent, handled_after_stop,
                   polls_after_stop, tstop, tpc, link, rlock>>
    /\ UNCHANGED <<syncVars, framerVars, chanVars, dispVars, reqVars>>

\* A step of the device worker t, and a step of main() inside its shutdown.
DeviceStep(t) ==
    \/ t \in Sensors /\ (SensorConnect(t) \/ SensorListen(t))
    \/ t = speaker_id /\ SpeakerLoop
    \/ AcquireReconnectionLock(t)
    \/ Reconnect(t)

ShutdownStep == JoinDispatcher \/ StopWorker \/ JoinWorker

\* main() with the Dispatcher, two wrist sensors and a speaker; no event is
\* published in these runs.
ShutSpecInit ==
    /\ SyncIdle
    /\ nfed = 0
    /\ FramerInit(2, 1, 0, TRUE, TRUE)
    /\ ChanInit(MaxCapacity)
    /\ DispInit(<<speaker_id>>, 0)
    /\ ReqInit
    /\ ShutIdle

ShutNext ==
    \/ LoopTest
    \/ GetTimeout
    \/ StopDispatcher
    \/ JoinDispatcher
    \/ StopWorker
    \/ JoinWorker
    \/ \E t \in Sensors : SensorConnect(t)
    \/ \E t \in Sensors : SensorListen(t)
    \/ SpeakerLoop
    \/ \E t \in Workers : AcquireReconnectionLock(t)
    \/ \E t \in Workers : Reconnect(t)
    \/ \E t \in Workers : LinkLost(t)
    \/ \E t \in Workers : DeviceBack(t)

\* Every thread is scheduled, and a thread that waits for the lock gets it
\* if the lock is free again and again; nothing obliges a device to come
\* back within reach, nor main() to begin the shutdown.
ShutSpec ==
    /\ ShutSpecInit
    /\ [][ShutNext]_vars
    /\ WF_vars(LoopTest \/ GetTimeout)
    /\ WF_vars(ShutdownStep)
    /\ \A t \in Workers : SF_vars(DeviceStep(t))

\* C22: once the shutdown sequence is started it completes, and when it has
\* completed the Dispatcher thread and every device worker have ended.
C22_ShutdownCompletes ==
    /\ [](mpc = "done" => (~thread_alive /\ \A t \in Workers : tpc[t] = "done"))
    /\ (mpc = "join_dispatcher") ~> (mpc = "done")

\* ------------------------------------------- reconnection while running
\* The device workers while main() sleeps in its loop: no stop signal is
\* set, devices drop out of reach and come back.
RunNext ==
    \/ \E t \in Sensors : SensorConnect(t)
    \/ \E t \in Sensors : SensorListen(t)
    \/ SpeakerLoop
    \/ \E t \in Workers : AcquireReconnectionLock(t)
    \/ \E t \in Workers : Reconnect(t)
    \/ \E t \in Workers : LinkLost(t)
    \/ \E t \in Workers : DeviceBack(t)

\* Every worker thread is scheduled, and a thread that waits for the lock
\* gets it if the lock is free again and again; nothing obliges a device
\* to come back within reach.
ReconnectSpec ==
    /\ ShutSpecInit
    /\ [][RunNext]_vars
    /\ \A t \in Workers : SF_vars(DeviceStep(t))

\* C32: while the system runs, a wrist-sensor worker that has found its
\* connection lost and asks for device_reconnection_lock eventually holds
\* it and makes its reconnection attempts, whatever the other workers do:
\* no other worker keeps the lock forever.
C32_WristWorkerReconnects ==
    \A t \in Sensors : (tpc[t] = "acquire") ~> (rlock = t)

====
